---- MODULE Spec2Model ----
(***************************************************************************)
(* Model of the reliability layer of the podcast-analysis pipeline:        *)
(*   - the structured response extractor  (_parse_json_response),          *)
(*   - the schema repair engine           (_auto_fix_validation),          *)
(*   - the validation-retry loop          (_invoke_llm_with_validation_    *)
(*                                          retry),                        *)
(*   - the provider failover wrapper around the retry loop,                *)
(*   - the tool-calling loops (supervisor.supervisor_node and              *)
(*     specialist_agents.fact_check_claims with per-iteration failover,    *)
(*     nodes.fact_checker_node and nodes.critic_node without),             *)
(*   - the analysis graph with its critique loop and the state merge       *)
(*     (state.merge_model_responses).                                      *)
(*                                                                         *)
(* Strings are sequences of characters over a two-letter alphabet (a word  *)
(* character and the space); record shapes are scaled down (the source's   *)
(* final_summary is 200..400 characters long) so that over-long,           *)
(* well-sized and too-short texts all occur within the bounds.             *)
(***************************************************************************)
EXTENDS Integers, Sequences, FiniteSets, TLC

(***************************************************************************)
(* Bounds                                                                  *)
(***************************************************************************)
MaxRetriesBound == 2    \* max_retries ranges over 0..MaxRetriesBound
MaxStrLen == 7          \* longest text a model response carries
MaxM == 6               \* largest configured max_length of a record shape
MaxIterBound == 2       \* max_iterations of a tool loop ranges over 1..MaxIterBound
MaxCriticBound == 3     \* max_critic_iterations ranges over 0..MaxCriticBound
MaxHistLen == 2         \* longest fact_check_iterations list handed to the merge
MaxResults == 2         \* most entries a search result carries
MaxTranscriptLen == 3   \* longest transcript handed to generate_sse_events
MaxStatements == 2      \* most entries of a factual_statements_json list
MaxExtractions == 2     \* most calls of _parse_json_response on one text
MaxValueLen == 11       \* longest value handed to the string_too_long branch
MaxLimit == 10          \* largest max_length of a string_too_long violation
MaxMerges == 3          \* most updates merged into the model_responses channel

(***************************************************************************)
(* Text helpers (Python str semantics, 0-based results where Python's are) *)
(***************************************************************************)
Chars == {"a", " "}

RECURSIVE StringsUpTo(_)
StringsUpTo(n) ==
    IF n = 0 THEN {<<>>}
    ELSE LET shorter == StringsUpTo(n - 1)
         IN  shorter \cup {Append(s, c) : s \in {t \in shorter : Len(t) = n - 1}, c \in Chars}

Texts == StringsUpTo(MaxStrLen)

\* s[:n]
Take(s, n) == SubSeq(s, 1, IF n < Len(s) THEN n ELSE Len(s))

\* s.rfind(" "): 0-based index of the last space, -1 when there is none
RFindSpace(s) ==
    LET idx == {i \in 1..Len(s) : s[i] = " "}
    IN  IF idx = {} THEN -1
        ELSE (CHOOSE i \in idx : \A j \in idx : j <= i) - 1

\* s.rstrip()
RECURSIVE RStrip(_)
RStrip(s) ==
    IF Len(s) > 0 /\ s[Len(s)] = " " THEN RStrip(SubSeq(s, 1, Len(s) - 1)) ELSE s

Ellipsis == <<".", ".", ".">>

(***************************************************************************)
(* Record shape and parsed data.                                           *)
(* The shape is SupervisorOutput reduced to the fields that carry the      *)
(* three kinds of constraint: final_summary (min_length/max_length         *)
(* string), key_takeaways (min_length list) and reasoning (required).      *)
(* A parsed JSON value is a scalar, a list or a dict.                      *)
(***************************************************************************)
Shapes ==
    {[min_length |-> mn, max_length |-> mx, min_items |-> 1] :
        mn \in 0..1, mx \in 1..MaxM}

ScalarData == [kind |-> "scalar"]
ListData == [kind |-> "list"]
DictOf(f) == [kind |-> "dict", fields |-> f]

Lists == {<<>>, <<"x">>}

DictFields ==
    UNION {
        {[final_summary |-> s, key_takeaways |-> l, reasoning |-> <<"a">>],
         [final_summary |-> s, key_takeaways |-> l]} : s \in Texts, l \in Lists}
    \cup {[key_takeaways |-> l, reasoning |-> <<"a">>] : l \in Lists}

JsonValues == {ScalarData, ListData} \cup {DictOf(f) : f \in DictFields}

HasKey(f, k) == k \in DOMAIN f

(***************************************************************************)
(* A model response text.  wellformed: the fence-stripped, trimmed text is *)
(* JSON under the lenient parser; raw_ctrl: it carries unescaped newline,  *)
(* tab or carriage-return characters; data: the value it denotes.          *)
(***************************************************************************)
BadText(c) == [wellformed |-> FALSE, raw_ctrl |-> c, data |-> ScalarData]
GoodText(c, d) == [wellformed |-> TRUE, raw_ctrl |-> c, data |-> d]

ResponseTexts ==
    {BadText(c) : c \in BOOLEAN}
    \cup {GoodText(c, d) : c \in BOOLEAN, d \in {ScalarData, ListData}}
    \cup {GoodText(FALSE, d) : d \in JsonValues}

(***************************************************************************)
(* Outcomes of a call and exception values.  A ValidationError carries the *)
(* identity of the validation that built it: the attempt index for the     *)
(* validation of a model response, RevalidateId for the repair engine's    *)
(* re-validation.                                                          *)
(***************************************************************************)
None == [none |-> TRUE]

Return(v) == [kind |-> "return", value |-> v]
Raise(e) == [kind |-> "raise", exc |-> e]
NoOutcome == [kind |-> "none"]

RevalidateId == -1
ValidationErrorOf(id, errs) == [type |-> "ValidationError", id |-> id, errors |-> errs]
ValueErrorExc == [type |-> "ValueError"]
JSONDecodeErrorExc == [type |-> "JSONDecodeError"]
AttributeErrorExc == [type |-> "AttributeError"]
TransportErrorExc == [type |-> "TransportError"]

IsValidationError(e) == e.type = "ValidationError"

ErrDetail(loc, type, mx) == [loc |-> loc, type |-> type, max_length |-> mx]

\* Variant: the upper length limit is exclusive.
FieldErrorsStrict(f, shape) ==
    (IF ~HasKey(f, "final_summary")
        THEN <<ErrDetail(<<"final_summary">>, "missing", 0)>>
     ELSE IF Len(f.final_summary) >= shape.max_length
        THEN <<ErrDetail(<<"final_summary">>, "string_too_long", shape.max_length)>>
     ELSE IF Len(f.final_summary) < shape.min_length
        THEN <<ErrDetail(<<"final_summary">>, "string_too_short", 0)>>
     ELSE <<>>)
    \o (IF Len(f.key_takeaways) < shape.min_items
        THEN <<ErrDetail(<<"key_takeaways">>, "too_short", 0)>>
        ELSE <<>>)
    \o (IF ~HasKey(f, "reasoning")
        THEN <<ErrDetail(<<"reasoning">>, "missing", 0)>>
        ELSE <<>>)

\* The violations pydantic reports for a value, in field order.
FieldErrors(f, shape) ==
    (IF ~HasKey(f, "final_summary")
        THEN <<ErrDetail(<<"final_summary">>, "missing", 0)>>
     ELSE IF Len(f.final_summary) > shape.max_length
        THEN <<ErrDetail(<<"final_summary">>, "string_too_long", shape.max_length)>>
     ELSE IF Len(f.final_summary) < shape.min_length
        THEN <<ErrDetail(<<"final_summary">>, "string_too_short", 0)>>
     ELSE <<>>)
    \o (IF Len(f.key_takeaways) < shape.min_items
        THEN <<ErrDetail(<<"key_takeaways">>, "too_short", 0)>>
        ELSE <<>>)
    \o (IF ~HasKey(f, "reasoning")
        THEN <<ErrDetail(<<"reasoning">>, "missing", 0)>>
        ELSE <<>>)

ValidationErrors(data, shape) ==
    IF data.kind # "dict"
        THEN <<ErrDetail(<<>>, "model_type", 0)>>
        ELSE FieldErrors(data.fields, shape)

\* Does a record satisfy every declared constraint of the shape?
SatisfiesShape(rec, shape) ==
    /\ DOMAIN rec = {"final_summary", "key_takeaways", "reasoning"}
    /\ Len(rec.final_summary) >= shape.min_length
    /\ Len(rec.final_summary) <= shape.max_length
    /\ Len(rec.key_takeaways) >= shape.min_items

\* model_class.model_validate(data)
ModelValidate(data, shape, id) ==
    IF ValidationErrors(data, shape) = <<>>
        THEN Return(data.fields)
        ELSE Raise(ValidationErrorOf(id, ValidationErrors(data, shape)))

(***************************************************************************)
(* Structured response extractor                                           *)
(***************************************************************************)
\* json.loads(text, strict=False): control characters are permitted literally
LenientParse(text) ==
    IF text.wellformed THEN Return(text.data) ELSE Raise(JSONDecodeErrorExc)

\* The three re.sub passes: every unescaped newline, tab or carriage return
\* is replaced by its escape sequence.
Sanitize(text) == [text EXCEPT !.raw_ctrl = FALSE]

\* Variant: the sanitization pass is applied before the first parse.
ParseJsonRunSanitizeFirst(text, shape, id) ==
    LET sanitized == Sanitize(text)
        first == LenientParse(sanitized)
    IN  [out |-> IF first.kind = "return"
                    THEN ModelValidate(first.value, shape, id)
                    ELSE Raise(ValueErrorExc),
         parsed |-> <<sanitized>>,
         sanitized |-> <<text>>]

\* The body of _parse_json_response on the fence-stripped, trimmed text:
\* out is what it returns or raises, parsed the texts handed to json.loads
\* and sanitized the texts the re.sub passes were applied to, in order.
ParseJsonRun(text, shape, id) ==
    LET first == LenientParse(text)
    IN  IF first.kind = "return"
            THEN [out |-> ModelValidate(first.value, shape, id),
                  parsed |-> <<text>>,
                  sanitized |-> <<>>]
            ELSE LET sanitized == Sanitize(text)
                     second == LenientParse(sanitized)
                 IN  [out |-> IF second.kind = "return"
                                THEN ModelValidate(second.value, shape, id)
                                ELSE Raise(ValueErrorExc),
                      parsed |-> <<text, sanitized>>,
                      sanitized |-> <<text>>]

\* _parse_json_response(response, model_class)
ParseJsonResponse(text, shape, id) == ParseJsonRun(text, shape, id).out

(***************************************************************************)
(* Schema repair engine                                                    *)
(***************************************************************************)
\* last_space > max_length * 0.8
KeepsEnough(last_space, max_length) == 5 * last_space > 4 * max_length

\* The string_too_long branch: the value written back to the field.
TruncateField(original_value, max_length) ==
    IF Len(original_value) > max_length
        THEN LET cut == Take(original_value, max_length)
                 last_space == RFindSpace(cut)
                 truncated == IF KeepsEnough(last_space, max_length)
                                THEN Take(cut, last_space) ELSE cut
             IN  IF Len(truncated) < Len(original_value)
                    THEN RStrip(truncated) \o Ellipsis
                    ELSE truncated
        ELSE original_value

\* One pass of the loop over error.errors() on the copy of the dict.
FixOne(fixed, err) ==
    LET field == IF err.loc # <<>> THEN err.loc[1] ELSE ""
    IN  IF field = "" \/ ~HasKey(fixed, field) THEN fixed
        ELSE IF err.type = "string_too_long"
            THEN [fixed EXCEPT ![field] = TruncateField(fixed[field], err.max_length)]
        ELSE fixed

RECURSIVE ApplyFixes(_, _, _)
ApplyFixes(fixed, errs, i) ==
    IF i > Len(errs) THEN fixed
    ELSE ApplyFixes(FixOne(fixed, errs[i]), errs, i + 1)

\* Variant: the fixed dict is returned without being validated again.
AutoFixValidationNoRecheck(data, error, shape) ==
    IF data.kind = "scalar" THEN Raise(AttributeErrorExc)
    ELSE IF data.kind = "list" THEN Raise(error)
    ELSE Return(ApplyFixes(data.fields, error.errors, 1))

\* _auto_fix_validation(data, error, model_class)
AutoFixValidation(data, error, shape) ==
    IF data.kind = "scalar"
        THEN Raise(AttributeErrorExc)          \* data.copy() on an int/str/None
    ELSE IF data.kind = "list"
        THEN Raise(error)                      \* no field matches; re-validation fails
    ELSE LET fixed_data == ApplyFixes(data.fields, error.errors, 1)
             checked == ModelValidate(DictOf(fixed_data), shape, RevalidateId)
         IN  IF checked.kind = "return" THEN checked ELSE Raise(error)

(***************************************************************************)
(* State                                                                   *)
(***************************************************************************)
VARIABLES
    pc,             \* retry loop: "loop", "returned" or "raised"
    max_retries,    \* the max_retries argument
    shape,          \* the model_class argument
    attempt,        \* the loop variable of the retry loop
    messages,       \* the conversation list passed by the caller
    response,       \* text of the response the call ended on (a failed
                    \* response that is retried lives on only as the
                    \* turn appended to messages: the next attempt
                    \* overwrites the local before reading it)
    result,         \* what the call returned or raised
    llm_calls,      \* number of llm.invoke calls made
    corrective,     \* number of corrective prompts appended
    repair_calls,   \* arguments of the _auto_fix_validation calls made
    repair_out,     \* what the last _auto_fix_validation call returned or raised
    repair_dicts,   \* the dict handed to _auto_fix_validation and its copy, as
                    \* the call left them (None when no dict was handed over)
    retried_kinds,  \* kinds of response that were answered by a corrective prompt
    sent,           \* the conversations handed to llm.invoke, one per attempt
    t_loop,         \* tool loop: "supervisor" (supervisor_node) or "fact_check"
                    \* (fact_check_claims)
    t_pc,           \* "loop", "after_loop" (left by break or by the end of the
                    \* range) or "raised"
    t_fallback,     \* fallback_llm_with_tools is not None
    t_max_iterations,
    t_iteration,    \* the loop variable
    t_messages,     \* the conversation of the tool loop
    t_invoked,      \* model invocations of the latest iteration, in order
    t_exc,          \* the exception that left the loop, if any
    agent_outputs,  \* supervisor: tool name -> parsed tool result
    tool_call_count,\* tool calls processed (supervisor and node loops)
    t_raised,       \* call ids of the tool invocations that raised
    t_returned,     \* supervisor: what the tool.invoke calls that returned gave back
    supervisor_output, \* supervisor: consolidated_output (None inside the loop)
    t_final,        \* the turn whose content the code after the loop reads as the
                    \* final answer (None inside the loop and for the supervisor)
    t_history,      \* the model invocations of every iteration so far, in order
    w_pc,           \* failover wrapper: "primary", "fallback" (the binding the
                    \* retry loop runs against) or "done"
    w_has_fallback, \* a fallback binding is configured
    w_original,     \* the conversation the caller handed to the wrapper
    w_primary,      \* how the primary run ended, once it has
    w_fallback_runs,\* retry-loop runs started against the fallback
    w_fallback_start, \* the conversation each of those runs started from
    w_result,       \* what the wrapper returned or raised
    g_pc,           \* graph: the node(s) scheduled next, "end" or "failed"
    g_done,         \* parallel analysis branches whose update has been merged
    model_responses,\* state["model_responses"]
    critic_iterations,     \* state["critic_iterations"] (0 while absent)
    max_critic_iterations, \* state["max_critic_iterations"]
    should_continue,       \* state["should_continue"] (FALSE while absent)
    g_fact_checks,  \* fact_checker_node runs completed
    g_critiques,    \* critic_node runs completed
    g_branch_out,   \* what each finished analysis branch returned
    g_seeds,        \* what each fact_checker_node run put into its prompt besides
                    \* the claims (None: the initial prompt)
    g_fc_outs,      \* the fact_check_output of each fact_checker_node run
    g_critic_outs,  \* the critic_feedback of each critic_node run
    m_left,         \* merge_model_responses: the left argument
    m_right,        \* the right argument
    m_out,           \* the value returned
    s_site,         \* search-tool call: the function whose loop makes it
    s_tool,         \* the name of the requested search tool
    s_pc,           \* "call" or "done"
    s_raw,          \* what tool.invoke returned (None if it raised)
    s_turn,          \* the tool-result turn appended for the call
    e_transcript,   \* generate_sse_events: the transcript argument
    e_metadata,     \* the metadata argument
    e_session_id,   \* the session_id argument
    e_pc,           \* "created", "at_started" / "at_error" (suspended at that
                    \* yield) or "closed"
    e_events,       \* the events handed to the consumer, in order
    e_log,          \* stages of the log records written
    e_exc,          \* the exception the except clause caught (None if none)
    e_pipeline,     \* stream_analysis: "not_called", or "call_failed" when the
                    \* call raised ("completed" once its events are used up)
    e_session_ctx,  \* the session context of the logger
    e_abandoned,     \* the consumer closed the stream at a yield
    f_json,         \* fact_check_claims_tool: the factual_statements_json argument
    f_context,      \* the context argument
    f_pc,           \* "call" or "done"
    f_result,       \* the payload returned (json.loads of the returned string)
    f_specialist_calls, \* arguments of the fact_check_claims calls made
    x_text,         \* _parse_json_response: the response argument (fence-stripped, trimmed)
    x_shape,        \* the model_class argument
    x_runs,          \* what each call made with these arguments did, in order
    u_original_value, \* string_too_long branch: fixed_data[field]
    u_max_length,   \* the max_length of the violation
    u_pc,           \* "call" or "done"
    u_truncated,     \* the value written back to the field
    k_tool,         \* supervisor tool wrapper: the name of the tool
    k_input,        \* what the wrapper hands to its specialist
    k_specialist,   \* what the specialist does when called
    k_pc,           \* "call" or "done"
    k_result,       \* what the wrapper returned or raised
    k_outputs,      \* agent_outputs of supervisor_node after the call
    k_turns,         \* the tool-result turn supervisor_node appended for the call
    c_acc,          \* chain of merges: the model_responses channel of the state
    c_right,        \* the update merged last
    c_n             \* number of updates merged

retryVars ==
    <<pc, max_retries, shape, attempt, messages, response, result,
      llm_calls, corrective, repair_calls, repair_out, repair_dicts,
      retried_kinds, sent>>

toolVars ==
    <<t_loop, t_pc, t_fallback, t_max_iterations, t_iteration, t_messages,
      t_invoked, t_exc, agent_outputs, tool_call_count, t_raised, t_returned,
      supervisor_output, t_final, t_history>>

wrapVars ==
    <<w_pc, w_has_fallback, w_original, w_primary, w_fallback_runs,
      w_fallback_start, w_result>>

graphVars ==
    <<g_pc, g_done, model_responses, critic_iterations, max_critic_iterations,
      should_continue, g_fact_checks, g_critiques, g_branch_out,
      g_seeds, g_fc_outs, g_critic_outs>>

mergeVars == <<m_left, m_right, m_out>>

searchVars == <<s_site, s_tool, s_pc, s_raw, s_turn>>

streamVars ==
    <<e_transcript, e_metadata, e_session_id, e_pc, e_events, e_log, e_exc,
      e_pipeline, e_session_ctx, e_abandoned>>

factToolVars == <<f_json, f_context, f_pc, f_result, f_specialist_calls>>

extractVars == <<x_text, x_shape, x_runs>>

truncateVars == <<u_original_value, u_max_length, u_pc, u_truncated>>

wrapperVars == <<k_tool, k_input, k_specialist, k_pc, k_result, k_outputs, k_turns>>

chainVars == <<c_acc, c_right, c_n>>

vars == <<retryVars, toolVars, wrapVars, graphVars, mergeVars, searchVars, streamVars, factToolVars, extractVars, truncateVars, wrapperVars, chainVars>>

NoResponse == [wellformed |-> FALSE, raw_ctrl |-> FALSE, data |-> [kind |-> "none"]]

Turn(role, kind, att) == [role |-> role, kind |-> kind, att |-> att]
PromptTurn == Turn("human", "prompt", 0)

RetryInit ==
    /\ pc = "loop"
    /\ max_retries \in 0..MaxRetriesBound
    /\ shape \in Shapes
    /\ attempt = 0
    /\ messages = <<PromptTurn>>
    /\ response = NoResponse
    /\ result = NoOutcome
    /\ llm_calls = 0
    /\ corrective = 0
    /\ repair_calls = <<>>
    /\ repair_out = NoOutcome
    /\ repair_dicts = None
    /\ retried_kinds = {}
    /\ sent = <<>>

\* The retry loop is not in use.
RetryIdle ==
    /\ pc = "idle"
    /\ max_retries = 0
    /\ shape = [min_length |-> 0, max_length |-> MaxM, min_items |-> 1]
    /\ attempt = 0
    /\ messages = <<>>
    /\ response = NoResponse
    /\ result = NoOutcome
    /\ llm_calls = 0
    /\ corrective = 0
    /\ repair_calls = <<>>
    /\ repair_out = NoOutcome
    /\ repair_dicts = None
    /\ retried_kinds = {}
    /\ sent = <<>>

(***************************************************************************)
(* Validation-retry loop                                                   *)
(***************************************************************************)
\* for attempt in range(max_retries + 1)
InRange(a, n) == a >= 0 /\ a < n + 1

\* Variant: the loop variable does not advance.
NextAttemptStuck(a) == a

NextAttempt(a) == a + 1

\* Variant: every exception is handled as a validation failure.
CaughtByRetryAny(exc) == TRUE

\* except ValidationError as e
CaughtByRetry(exc) == IsValidationError(exc)

\* if attempt >= max_retries
IsLastAttempt(a, n) == a >= n

\* Variant: the failure of the repair is what reaches the caller.
RepairFallbackRaisesFixError(text, e, model_shape) ==
    LET reparsed == LenientParse(text)
    IN  IF reparsed.kind = "raise" THEN reparsed
        ELSE AutoFixValidation(reparsed.value, e, model_shape)

\* The try block of the last attempt: re-parse the last response without
\* validation, run the repair engine, and on any failure re-raise e.
RepairFallback(text, e, model_shape) ==
    LET reparsed == LenientParse(text)
        fixed == IF reparsed.kind = "raise" THEN reparsed
                 ELSE AutoFixValidation(reparsed.value, e, model_shape)
    IN  IF fixed.kind = "return" THEN fixed ELSE Raise(e)

\* The arguments the last attempt hands to the repair engine, if it gets there,
\* and what the engine answers.
RepairArgs(text) ==
    LET reparsed == LenientParse(text)
    IN  IF reparsed.kind = "return" THEN <<reparsed.value>> ELSE <<>>

RepairAnswer(text, e, model_shape) ==
    LET reparsed == LenientParse(text)
    IN  IF reparsed.kind = "return"
            THEN AutoFixValidation(reparsed.value, e, model_shape)
            ELSE NoOutcome

\* Variant: the loop writes to the caller's dict, no copy is made.
AutoFixDictsAliased(data, error) ==
    LET fixed_data == ApplyFixes(data, error.errors, 1)
    IN  [data |-> fixed_data, fixed_data |-> fixed_data]

\* _auto_fix_validation, "fixed_data = data.copy()" and the loop over
\* error.errors(): the caller's dict and the copy when the loop is over.
AutoFixDicts(data, error) ==
    [data |-> data, fixed_data |-> ApplyFixes(data, error.errors, 1)]

RepairDicts(text, e) ==
    LET reparsed == LenientParse(text)
    IN  IF reparsed.kind = "return" /\ reparsed.value.kind = "dict"
            THEN AutoFixDicts(reparsed.value.fields, e)
            ELSE None

\* Does the text denote a record that meets every constraint of the shape?
Conforms(text, model_shape) ==
    /\ text.wellformed
    /\ text.data.kind = "dict"
    /\ SatisfiesShape(text.data.fields, model_shape)

KindOf(text, model_shape) ==
    IF ~text.wellformed THEN "unparseable"
    ELSE IF Conforms(text, model_shape) THEN "conforming"
    ELSE "invalid"

\* Variant: a failed invocation uses up an attempt and is tried again.
AttemptInvokeRaisesRetried ==
    /\ pc = "loop"
    /\ InRange(attempt, max_retries)
    /\ llm_calls' = llm_calls + 1
    /\ sent' = Append(sent, messages)
    /\ IF IsLastAttempt(attempt, max_retries)
          THEN pc' = "raised" /\ result' = Raise(TransportErrorExc) /\ attempt' = attempt
          ELSE pc' = pc /\ result' = result /\ attempt' = NextAttempt(attempt)
    /\ UNCHANGED <<max_retries, shape, messages, response, corrective,
                   repair_calls, repair_out, repair_dicts, retried_kinds>>
    /\ UNCHANGED <<toolVars, wrapVars, graphVars, mergeVars, searchVars, streamVars, factToolVars, extractVars, truncateVars, wrapperVars, chainVars>>

\* llm.invoke(messages) raises: nothing in the loop catches it.
AttemptInvokeRaises ==
    /\ pc = "loop"
    /\ InRange(attempt, max_retries)
    /\ llm_calls' = llm_calls + 1
    /\ sent' = Append(sent, messages)
    /\ pc' = "raised"
    /\ result' = Raise(TransportErrorExc)
    /\ UNCHANGED <<max_retries, shape, attempt, messages, response, corrective,
                   repair_calls, repair_out, repair_dicts, retried_kinds>>
    /\ UNCHANGED <<toolVars, wrapVars, graphVars, mergeVars, searchVars, streamVars, factToolVars, extractVars, truncateVars, wrapperVars, chainVars>>

\* The response parses and validates: return validated_output.
AttemptReturns ==
    /\ pc = "loop"
    /\ InRange(attempt, max_retries)
    /\ \E text \in ResponseTexts :
        LET out == ParseJsonResponse(text, shape, attempt)
        IN  /\ out.kind = "return"
            /\ response' = text
            /\ result' = out
    /\ llm_calls' = llm_calls + 1
    /\ sent' = Append(sent, messages)
    /\ pc' = "returned"
    /\ UNCHANGED <<max_retries, shape, attempt, messages, corrective,
                   repair_calls, repair_out, repair_dicts, retried_kinds>>
    /\ UNCHANGED <<toolVars, wrapVars, graphVars, mergeVars, searchVars, streamVars, factToolVars, extractVars, truncateVars, wrapperVars, chainVars>>

\* The extractor raises something the loop does not catch.
AttemptPropagates ==
    /\ pc = "loop"
    /\ InRange(attempt, max_retries)
    /\ \E text \in ResponseTexts :
        LET out == ParseJsonResponse(text, shape, attempt)
        IN  /\ out.kind = "raise"
            /\ ~CaughtByRetry(out.exc)
            /\ response' = text
            /\ result' = out
    /\ llm_calls' = llm_calls + 1
    /\ sent' = Append(sent, messages)
    /\ pc' = "raised"
    /\ UNCHANGED <<max_retries, shape, attempt, messages, corrective,
                   repair_calls, repair_out, repair_dicts, retried_kinds>>
    /\ UNCHANGED <<toolVars, wrapVars, graphVars, mergeVars, searchVars, streamVars, factToolVars, extractVars, truncateVars, wrapperVars, chainVars>>

\* Variant: only the corrective prompt is appended.
CorrectiveTurnsPromptOnly(a) == <<Turn("human", "corrective", a)>>

\* messages.append(response); messages.append(HumanMessage(content=error_prompt))
CorrectiveTurns(a) == <<Turn("ai", "response", a), Turn("human", "corrective", a)>>

\* Validation failed with attempts remaining: append the failed response and
\* the corrective prompt, go on with the next attempt.
AttemptRetries ==
    /\ pc = "loop"
    /\ InRange(attempt, max_retries)
    /\ \E text \in ResponseTexts :
        LET out == ParseJsonResponse(text, shape, attempt)
        IN  /\ out.kind = "raise"
            /\ CaughtByRetry(out.exc)
            /\ ~IsLastAttempt(attempt, max_retries)
            /\ retried_kinds' = retried_kinds \cup {KindOf(text, shape)}
    /\ llm_calls' = llm_calls + 1
    /\ sent' = Append(sent, messages)
    /\ messages' = messages \o CorrectiveTurns(attempt)
    /\ corrective' = corrective + 1
    /\ attempt' = NextAttempt(attempt)
    /\ UNCHANGED <<pc, max_retries, shape, response, result, repair_calls, repair_out,
                   repair_dicts>>
    /\ UNCHANGED <<toolVars, wrapVars, graphVars, mergeVars, searchVars, streamVars, factToolVars, extractVars, truncateVars, wrapperVars, chainVars>>

\* Validation failed on the last attempt: repair or re-raise.
AttemptExhausted ==
    /\ pc = "loop"
    /\ InRange(attempt, max_retries)
    /\ \E text \in ResponseTexts :
        LET out == ParseJsonResponse(text, shape, attempt)
        IN  /\ out.kind = "raise"
            /\ CaughtByRetry(out.exc)
            /\ IsLastAttempt(attempt, max_retries)
            /\ response' = text
            /\ result' = RepairFallback(text, out.exc, shape)
            /\ repair_calls' = repair_calls \o RepairArgs(text)
            /\ repair_out' = RepairAnswer(text, out.exc, shape)
            /\ repair_dicts' = RepairDicts(text, out.exc)
            /\ pc' = IF result'.kind = "return" THEN "returned" ELSE "raised"
    /\ llm_calls' = llm_calls + 1
    /\ sent' = Append(sent, messages)
    /\ UNCHANGED <<max_retries, shape, attempt, messages, corrective, retried_kinds>>
    /\ UNCHANGED <<toolVars, wrapVars, graphVars, mergeVars, searchVars, streamVars, factToolVars, extractVars, truncateVars, wrapperVars, chainVars>>

RetryNext ==
    \/ AttemptInvokeRaises
    \/ AttemptReturns
    \/ AttemptPropagates
    \/ AttemptRetries
    \/ AttemptExhausted

(***************************************************************************)
(* Provider failover wrapper (_invoke_llm_with_failover).  Its callers are *)
(* in specialist_agents.py; the wrapper itself is modelled from its        *)
(* contract: run the retry loop against the primary binding; on any        *)
(* exception, propagate it when no fallback is configured, otherwise run   *)
(* the retry loop once against the fallback on a fresh copy of the         *)
(* original conversation and return or raise what that run does.           *)
(***************************************************************************)
\* Variant: the fallback is handed the list the primary run appended to.
FallbackConversationShared(original, primary_messages) == primary_messages

\* The conversation the fallback run starts from.
FallbackConversation(original, primary_messages) == original

\* How a finished retry-loop run is remembered.
RunSummary ==
    [calls |-> llm_calls,
     messages |-> messages,
     exc_type |-> IF pc = "raised" THEN result.exc.type ELSE "none"]

\* The primary run returned, or it raised and there is no fallback.
FailoverPrimaryDone ==
    /\ w_pc = "primary"
    /\ pc = "returned" \/ (pc = "raised" /\ ~w_has_fallback)
    /\ w_pc' = "done"
    /\ w_primary' = RunSummary
    /\ w_result' = result
    /\ UNCHANGED <<w_has_fallback, w_original, w_fallback_runs, w_fallback_start>>
    /\ UNCHANGED <<retryVars, toolVars, graphVars, mergeVars, searchVars, streamVars, factToolVars, extractVars, truncateVars, wrapperVars, chainVars>>

\* The primary run raised and a fallback is configured: start the retry loop
\* against the fallback.
FailoverStartsFallback ==
    /\ w_pc = "primary"
    /\ pc = "raised"
    /\ w_has_fallback
    /\ w_pc' = "fallback"
    /\ w_primary' = RunSummary
    /\ w_fallback_runs' = w_fallback_runs + 1
    /\ w_fallback_start' =
            Append(w_fallback_start, FallbackConversation(w_original, messages))
    /\ pc' = "loop"
    /\ attempt' = 0
    /\ messages' = FallbackConversation(w_original, messages)
    /\ response' = NoResponse
    /\ result' = NoOutcome
    /\ llm_calls' = 0
    /\ corrective' = 0
    /\ repair_calls' = <<>>
    /\ repair_out' = NoOutcome
    /\ repair_dicts' = None
    /\ retried_kinds' = {}
    /\ sent' = <<>>
    /\ UNCHANGED <<max_retries, shape, w_has_fallback, w_original, w_result>>
    /\ UNCHANGED <<toolVars, graphVars, mergeVars, searchVars, streamVars, factToolVars, extractVars, truncateVars, wrapperVars, chainVars>>

\* The fallback run ended: its record or its exception is the wrapper's.
FailoverFallbackDone ==
    /\ w_pc = "fallback"
    /\ pc \in {"returned", "raised"}
    /\ w_pc' = "done"
    /\ w_result' = result
    /\ UNCHANGED <<w_has_fallback, w_original, w_primary, w_fallback_runs,
                   w_fallback_start>>
    /\ UNCHANGED <<retryVars, toolVars, graphVars, mergeVars, searchVars, streamVars, factToolVars, extractVars, truncateVars, wrapperVars, chainVars>>

FailoverNext ==
    \/ RetryNext
    \/ FailoverPrimaryDone
    \/ FailoverStartsFallback
    \/ FailoverFallbackDone

(***************************************************************************)
(* Tool-calling loops with per-iteration failover                          *)
(***************************************************************************)
SupervisorToolNames ==
    {"summarize_podcast_tool", "extract_notes_tool", "fact_check_claims_tool"}
SearchToolNames == {"tavily_search", "brave_search"}
UnknownTool == "unknown_tool"

ToolsOf(loop) == IF loop = "supervisor" THEN SupervisorToolNames ELSE SearchToolNames

\* The lists of tool requests one model turn may carry.
CallLists(loop) ==
    {<<>>}
    \cup {<<n>> : n \in ToolsOf(loop) \cup {UnknownTool}}
    \cup (IF loop = "supervisor"
            THEN {<<"summarize_podcast_tool", "extract_notes_tool">>,
                  <<UnknownTool, "fact_check_claims_tool">>}
            ELSE {<<"tavily_search", "brave_search">>,
                  <<UnknownTool, "tavily_search">>})

\* What tool.invoke does: a supervisor tool returns the JSON of the
\* specialist's output or a JSON error payload, a search tool returns its
\* results; any of them may raise.
ToolOutcomes(loop) ==
    IF loop = "supervisor" THEN {"output", "error_payload", "raise"}
    ELSE {"output", "raise"}

CallId(it, ix) == [it |-> it, ix |-> ix]

AiTurn(it, calls) ==
    [role |-> "ai", it |-> it,
     tool_calls |-> [k \in 1..Len(calls) |-> [name |-> calls[k], id |-> CallId(it, k)]]]
ToolTurn(id, status) == [role |-> "tool", tool_call_id |-> id, status |-> status]
SystemTurn == [role |-> "system"]
HumanTurn == [role |-> "human"]

ModelError(by, it) == [type |-> "TransportError", by |-> by, it |-> it]

\* What a binding's invoke(messages) may do in iteration it.
ModelOutcomes(loop, by, it) ==
    {Raise(ModelError(by, it))} \cup {Return(AiTurn(it, c)) : c \in CallLists(loop)}

Invocation(by, out) == [by |-> by, ok |-> out.kind = "return"]

\* Variant: the fallback binding is invoked whether or not the primary failed.
SupervisorInvokeEager(p, f, has_fallback) ==
    IF ~has_fallback
        THEN [out |-> p, invoked |-> <<Invocation("primary", p)>>]
        ELSE [out |-> IF p.kind = "return" THEN p ELSE f,
              invoked |-> <<Invocation("primary", p), Invocation("fallback", f)>>]

\* Variant: when both bindings fail the primary's error is raised.
SupervisorInvokeRaisesFirst(p, f, has_fallback) ==
    IF p.kind = "return" \/ ~has_fallback
        THEN [out |-> p, invoked |-> <<Invocation("primary", p)>>]
        ELSE [out |-> IF f.kind = "return" THEN f ELSE p,
              invoked |-> <<Invocation("primary", p), Invocation("fallback", f)>>]

\* Variant: a configured fallback binding is the one invoked.
SupervisorInvokeFallbackFirst(p, f, has_fallback) ==
    IF has_fallback
        THEN [out |-> f, invoked |-> <<Invocation("fallback", f)>>]
        ELSE [out |-> p, invoked |-> <<Invocation("primary", p)>>]

\* supervisor_node, "Invoke LLM with failover": p and f are what the primary
\* and the fallback binding do when invoked.
SupervisorInvoke(p, f, has_fallback) ==
    IF p.kind = "return"
        THEN [out |-> p, invoked |-> <<Invocation("primary", p)>>]
    ELSE IF ~has_fallback
        THEN [out |-> p, invoked |-> <<Invocation("primary", p)>>]          \* raise
    ELSE [out |-> f,                                                        \* raise fallback_error
          invoked |-> <<Invocation("primary", p), Invocation("fallback", f)>>]

\* Variant: without a fallback the primary is tried a second time.
FactCheckInvokeTriesAgain(p, f, has_fallback) ==
    IF p.kind = "return"
        THEN [out |-> p, invoked |-> <<Invocation("primary", p)>>]
    ELSE IF ~has_fallback
        THEN [out |-> p, invoked |-> <<Invocation("primary", p), Invocation("primary", p)>>]
    ELSE [out |-> f,
          invoked |-> <<Invocation("primary", p), Invocation("fallback", f)>>]

\* fact_check_claims, "Invoke LLM with failover"
FactCheckInvoke(p, f, has_fallback) ==
    IF p.kind = "return"
        THEN [out |-> p, invoked |-> <<Invocation("primary", p)>>]
    ELSE IF ~has_fallback
        THEN [out |-> p, invoked |-> <<Invocation("primary", p)>>]          \* raise
    ELSE [out |-> f,                                                        \* raise fallback_error
          invoked |-> <<Invocation("primary", p), Invocation("fallback", f)>>]

\* json.loads(tool_result) of a supervisor tool: the specialist's output or
\* the error payload of the tool wrapper, as returned to call id.
ToolResult(name, outcome, id) == [tool |-> name, kind |-> outcome, id |-> id]

\* supervisor_node, one tool call.  The result is stored in agent_outputs as
\* soon as it parses; the metrics that follow read core_theme[:100], which
\* fails on the summarizer's error payload (core_theme is None) and lands in
\* the except branch.
SupervisorToolCall(st, call, outcome) ==
    LET counted == [st EXCEPT !.count = st.count + 1]
    IN  IF call.name \notin SupervisorToolNames
            THEN [counted EXCEPT !.msgs = Append(st.msgs, ToolTurn(call.id, "unavailable"))]
        ELSE IF outcome = "raise"
            THEN [counted EXCEPT !.msgs = Append(st.msgs, ToolTurn(call.id, "error")),
                                 !.raised = @ \cup {call.id}]
        ELSE LET output_data == ToolResult(call.name, outcome, call.id)
                 stored == [n \in DOMAIN st.outputs \cup {call.name} |->
                               IF n = call.name THEN output_data ELSE st.outputs[n]]
                 metrics_fail ==
                     call.name = "summarize_podcast_tool" /\ outcome = "error_payload"
             IN  [counted EXCEPT
                    !.outputs = stored,
                    !.returned = @ \cup {output_data},
                    !.msgs = Append(st.msgs,
                                ToolTurn(call.id, IF metrics_fail THEN "error" ELSE "result"))]

\* Variant: a tool failure is logged and nothing is appended for it.
FactCheckToolCallDropsError(st, call, outcome) ==
    IF call.name \notin SearchToolNames
        THEN [st EXCEPT !.msgs = Append(st.msgs, ToolTurn(call.id, "unavailable"))]
    ELSE IF outcome = "raise"
        THEN [st EXCEPT !.raised = @ \cup {call.id}]
    ELSE [st EXCEPT !.msgs = Append(st.msgs, ToolTurn(call.id, "result"))]

\* fact_check_claims, one tool call
FactCheckToolCall(st, call, outcome) ==
    IF call.name \notin SearchToolNames
        THEN [st EXCEPT !.msgs = Append(st.msgs, ToolTurn(call.id, "unavailable"))]
    ELSE IF outcome = "raise"
        THEN [st EXCEPT !.msgs = Append(st.msgs, ToolTurn(call.id, "error")),
                        !.raised = @ \cup {call.id}]
    ELSE [st EXCEPT !.msgs = Append(st.msgs, ToolTurn(call.id, "result"))]

\* fact_checker_node and critic_node, "response = llm_with_tools.invoke":
\* one binding, nothing catches what it raises.
NodeInvoke(p, f, has_fallback) ==
    [out |-> p, invoked |-> <<Invocation("primary", p)>>]

\* fact_checker_node and critic_node, one tool call: a name that matches no
\* tool is counted and skipped (continue).
NodeToolCall(st, call, outcome) ==
    LET counted == [st EXCEPT !.count = st.count + 1]
    IN  IF call.name \notin SearchToolNames
            THEN counted
        ELSE IF outcome = "raise"
            THEN [counted EXCEPT !.msgs = Append(st.msgs, ToolTurn(call.id, "error")),
                                 !.raised = @ \cup {call.id}]
        ELSE [counted EXCEPT !.msgs = Append(st.msgs, ToolTurn(call.id, "result"))]

NodeLoops == {"fact_checker_node", "critic_node"}

\* for tool_call in response.tool_calls
RECURSIVE ProcessToolCalls(_, _, _, _, _)
ProcessToolCalls(loop, st, calls, outcomes, k) ==
    IF k > Len(calls) THEN st
    ELSE ProcessToolCalls(loop,
            IF loop = "supervisor"
                THEN SupervisorToolCall(st, calls[k], outcomes[k])
            ELSE IF loop = "fact_check"
                THEN FactCheckToolCall(st, calls[k], outcomes[k])
            ELSE NodeToolCall(st, calls[k], outcomes[k]),
            calls, outcomes, k + 1)

NoExc == [type |-> "none"]
NoOutputs == [n \in {} |-> "output"]
EmptyDict == [empty |-> TRUE]

\* agent_outputs.get(key, {})
Get(outputs, key) == IF key \in DOMAIN outputs THEN outputs[key] ELSE EmptyDict

\* Variant: the notes section is read under a key no tool stores.
ConsolidateWrongKey(outputs, count) ==
    [summary |-> Get(outputs, "summarize_podcast_tool"),
     notes |-> Get(outputs, "extract_notes"),
     fact_check |-> Get(outputs, "fact_check_claims_tool"),
     total_tool_calls |-> count,
     agents_invoked |-> Cardinality(DOMAIN outputs)]

\* supervisor_node, "Consolidate outputs from all agents"
Consolidate(outputs, count) ==
    [summary |-> Get(outputs, "summarize_podcast_tool"),
     notes |-> Get(outputs, "extract_notes_tool"),
     fact_check |-> Get(outputs, "fact_check_claims_tool"),
     total_tool_calls |-> count,
     agents_invoked |-> Cardinality(DOMAIN outputs)]

\* What follows the loop: supervisor_node builds consolidated_output.
AfterLoop(loop, outputs, count) ==
    IF loop = "supervisor" THEN Consolidate(outputs, count) ELSE None

\* The turn read as the final answer once the loop is left: fact_check_claims
\* reads messages[-1].content, fact_checker_node and critic_node read
\* response.content; supervisor_node parses no final answer.
FinalAnswerTurn(loop, msgs, response_turn) ==
    IF loop = "supervisor" THEN None
    ELSE IF loop = "fact_check" THEN msgs[Len(msgs)]
    ELSE response_turn

ToolInit ==
    /\ t_loop \in {"supervisor", "fact_check"} \cup NodeLoops
    /\ t_pc = "loop"
    /\ t_fallback \in (IF t_loop \in NodeLoops THEN {FALSE} ELSE BOOLEAN)
    /\ t_max_iterations \in 1..MaxIterBound
    /\ t_iteration = 0
    /\ t_messages = IF t_loop = "supervisor" THEN <<SystemTurn, HumanTurn>> ELSE <<HumanTurn>>
    /\ t_invoked = <<>>
    /\ t_exc = NoExc
    /\ agent_outputs = NoOutputs
    /\ tool_call_count = 0
    /\ t_raised = {}
    /\ t_returned = {}
    /\ supervisor_output = None
    /\ t_final = None
    /\ t_history = <<>>

\* No tool loop is in use.
ToolIdle ==
    /\ t_loop = "none"
    /\ t_pc = "idle"
    /\ t_fallback = FALSE
    /\ t_max_iterations = 0
    /\ t_iteration = 0
    /\ t_messages = <<>>
    /\ t_invoked = <<>>
    /\ t_exc = NoExc
    /\ agent_outputs = NoOutputs
    /\ tool_call_count = 0
    /\ t_raised = {}
    /\ t_returned = {}
    /\ supervisor_output = None
    /\ t_final = None
    /\ t_history = <<>>

\* Variant: the loop runs one pass more than its budget.
WithinBudgetOffByOne(it, max_iterations) == it <= max_iterations

\* for iteration in range(max_iterations)
WithinBudget(it, max_iterations) == it < max_iterations

\* Variant: a turn without tool requests does not leave the loop.
LoopBodyNoBreak(inv, outcomes) ==
    /\ t_invoked' = inv.invoked
    /\ t_history' = Append(t_history, inv.invoked)
    /\ IF inv.out.kind = "raise"
        THEN /\ t_pc' = "raised"
             /\ t_exc' = inv.out.exc
             /\ UNCHANGED <<t_iteration, t_messages, agent_outputs, tool_call_count,
                            t_raised, t_returned, supervisor_output, t_final>>
        ELSE LET turn == inv.out.value
                 st == ProcessToolCalls(t_loop,
                         [msgs |-> Append(t_messages, turn), outputs |-> agent_outputs,
                          count |-> tool_call_count, raised |-> t_raised,
                          returned |-> t_returned],
                         turn.tool_calls, outcomes, 1)
             IN  /\ t_messages' = st.msgs
                 /\ agent_outputs' = st.outputs
                 /\ tool_call_count' = st.count
                 /\ t_raised' = st.raised
                 /\ t_returned' = st.returned
                 /\ t_iteration' = t_iteration + 1
                 /\ t_pc' = IF WithinBudget(t_iteration + 1, t_max_iterations)
                              THEN "loop" ELSE "after_loop"
                 /\ supervisor_output' =
                        IF WithinBudget(t_iteration + 1, t_max_iterations)
                            THEN supervisor_output
                            ELSE AfterLoop(t_loop, st.outputs, st.count)
                 /\ t_final' =
                        IF WithinBudget(t_iteration + 1, t_max_iterations)
                            THEN t_final
                            ELSE FinalAnswerTurn(t_loop, st.msgs, turn)
                 /\ t_exc' = t_exc

\* One pass of the body of "for iteration in range(max_iterations)";
\* inv is what the failover block did, outcomes what the requested tools do.
LoopBody(inv, outcomes) ==
    /\ t_invoked' = inv.invoked
    /\ t_history' = Append(t_history, inv.invoked)
    /\ IF inv.out.kind = "raise"
        THEN /\ t_pc' = "raised"
             /\ t_exc' = inv.out.exc
             /\ UNCHANGED <<t_iteration, t_messages, agent_outputs, tool_call_count,
                            t_raised, t_returned, supervisor_output, t_final>>
        ELSE LET turn == inv.out.value
                 appended == Append(t_messages, turn)
             IN  IF turn.tool_calls = <<>>
                    THEN /\ t_pc' = "after_loop"                       \* break
                         /\ t_messages' = appended
                         /\ supervisor_output' =
                                AfterLoop(t_loop, agent_outputs, tool_call_count)
                         /\ t_final' = FinalAnswerTurn(t_loop, appended, turn)
                         /\ UNCHANGED <<t_iteration, t_exc, agent_outputs,
                                        tool_call_count, t_raised, t_returned>>
                    ELSE LET st == ProcessToolCalls(t_loop,
                                     [msgs |-> appended, outputs |-> agent_outputs,
                                      count |-> tool_call_count, raised |-> t_raised,
                                      returned |-> t_returned],
                                     turn.tool_calls, outcomes, 1)
                         IN  /\ t_messages' = st.msgs
                             /\ agent_outputs' = st.outputs
                             /\ tool_call_count' = st.count
                             /\ t_raised' = st.raised
                             /\ t_returned' = st.returned
                             /\ t_iteration' = t_iteration + 1
                             /\ t_pc' = IF WithinBudget(t_iteration + 1, t_max_iterations)
                                          THEN "loop" ELSE "after_loop"
                             /\ supervisor_output' =
                                    IF WithinBudget(t_iteration + 1, t_max_iterations)
                                        THEN supervisor_output
                                        ELSE AfterLoop(t_loop, st.outputs, st.count)
                             /\ t_final' =
                                    IF WithinBudget(t_iteration + 1, t_max_iterations)
                                        THEN t_final
                                        ELSE FinalAnswerTurn(t_loop, st.msgs, turn)
                             /\ t_exc' = t_exc

SupervisorIteration ==
    /\ t_loop = "supervisor"
    /\ t_pc = "loop"
    /\ WithinBudget(t_iteration, t_max_iterations)
    /\ \E p \in ModelOutcomes(t_loop, "primary", t_iteration),
          f \in ModelOutcomes(t_loop, "fallback", t_iteration),
          outcomes \in [1..2 -> ToolOutcomes(t_loop)] :
            LoopBody(SupervisorInvoke(p, f, t_fallback), outcomes)
    /\ UNCHANGED <<t_loop, t_fallback, t_max_iterations>>
    /\ UNCHANGED <<retryVars, wrapVars, graphVars, mergeVars, searchVars, streamVars, factToolVars, extractVars, truncateVars, wrapperVars, chainVars>>

FactCheckIteration ==
    /\ t_loop = "fact_check"
    /\ t_pc = "loop"
    /\ WithinBudget(t_iteration, t_max_iterations)
    /\ \E p \in ModelOutcomes(t_loop, "primary", t_iteration),
          f \in ModelOutcomes(t_loop, "fallback", t_iteration),
          outcomes \in [1..2 -> ToolOutcomes(t_loop)] :
            LoopBody(FactCheckInvoke(p, f, t_fallback), outcomes)
    /\ UNCHANGED <<t_loop, t_fallback, t_max_iterations>>
    /\ UNCHANGED <<retryVars, wrapVars, graphVars, mergeVars, searchVars, streamVars, factToolVars, extractVars, truncateVars, wrapperVars, chainVars>>

NodeIteration ==
    /\ t_loop \in NodeLoops
    /\ t_pc = "loop"
    /\ WithinBudget(t_iteration, t_max_iterations)
    /\ \E p \in ModelOutcomes(t_loop, "primary", t_iteration),
          outcomes \in [1..2 -> ToolOutcomes(t_loop)] :
            LoopBody(NodeInvoke(p, p, FALSE), outcomes)
    /\ UNCHANGED <<t_loop, t_fallback, t_max_iterations>>
    /\ UNCHANGED <<retryVars, wrapVars, graphVars, mergeVars, searchVars, streamVars, factToolVars, extractVars, truncateVars, wrapperVars, chainVars>>

ToolNext ==
    \/ SupervisorIteration
    \/ FactCheckIteration
    \/ NodeIteration

(***************************************************************************)
(* Pipeline state and the fixed analysis graph: model_a_node and           *)
(* model_b_node in parallel, supervisor_node (nodes.py), then              *)
(* fact_checker_node and critic_node repeated while should_continue.       *)
(* Every node returns a partial update; the model_responses channel is     *)
(* reduced by merge_model_responses, the other keys are overwritten.       *)
(* What a node computes is a value of a small set; the wiring of the nodes *)
(* follows the design of the critique loop and of the orchestrator.        *)
(***************************************************************************)
\* ModelResponses(): every field at its default
EmptyResponses ==
    [model_a |-> None, model_b |-> None, supervisor |-> None,
     fact_check_current |-> None, critic_current |-> None,
     fact_check_iterations |-> <<>>]

Analyses == {[by |-> n, topics |-> t] : n \in {"model_a", "model_b"}, t \in 1..2}
SupervisorOutputs == {[final_summary |-> "s"]}
FactChecks == {[research_quality |-> q] : q \in 1..2}
CriticFeedbacks == {[research_is_sufficient |-> b] : b \in BOOLEAN}

\* a or b, for fields that hold a model object or None
Or(a, b) == IF a # None THEN a ELSE b

\* Variant: the value already in the state wins.
MergeModelResponsesLeftBiased(left, right) ==
    IF left = None THEN right
    ELSE [model_a |-> Or(left.model_a, right.model_a),
          model_b |-> Or(left.model_b, right.model_b),
          supervisor |-> Or(left.supervisor, right.supervisor),
          fact_check_current |-> Or(left.fact_check_current, right.fact_check_current),
          critic_current |-> Or(left.critic_current, right.critic_current),
          fact_check_iterations |-> left.fact_check_iterations \o right.fact_check_iterations]

\* Variant: the update replaces the value in the state.
MergeModelResponsesOverwrite(left, right) == right

\* Variant: the update's history is put in front of the state's.
MergeModelResponsesPrepends(left, right) ==
    IF left = None THEN right
    ELSE [model_a |-> Or(right.model_a, left.model_a),
          model_b |-> Or(right.model_b, left.model_b),
          supervisor |-> Or(right.supervisor, left.supervisor),
          fact_check_current |-> Or(right.fact_check_current, left.fact_check_current),
          critic_current |-> Or(right.critic_current, left.critic_current),
          fact_check_iterations |-> right.fact_check_iterations \o left.fact_check_iterations]

\* Variant: every field is taken from the update, set or not.
MergeModelResponsesRightOnly(left, right) ==
    IF left = None THEN right
    ELSE [model_a |-> right.model_a,
          model_b |-> right.model_b,
          supervisor |-> right.supervisor,
          fact_check_current |-> right.fact_check_current,
          critic_current |-> right.critic_current,
          fact_check_iterations |-> left.fact_check_iterations \o right.fact_check_iterations]

\* merge_model_responses(left, right)
MergeModelResponses(left, right) ==
    IF left = None THEN right
    ELSE [model_a |-> Or(right.model_a, left.model_a),
          model_b |-> Or(right.model_b, left.model_b),
          supervisor |-> Or(right.supervisor, left.supervisor),
          fact_check_current |-> Or(right.fact_check_current, left.fact_check_current),
          critic_current |-> Or(right.critic_current, left.critic_current),
          fact_check_iterations |-> left.fact_check_iterations \o right.fact_check_iterations]

\* Variant: the budget is not consulted.
ShouldContinueIgnoresBudget(research_is_sufficient, current_iteration, max_iterations) ==
    ~research_is_sufficient

\* Variant: the counter is compared with max_iterations itself.
ShouldContinueOffByOne(research_is_sufficient, current_iteration, max_iterations) ==
    ~research_is_sufficient /\ current_iteration < max_iterations

\* Variant: the verdict is not consulted.
ShouldContinueUntilBudget(research_is_sufficient, current_iteration, max_iterations) ==
    current_iteration < max_iterations - 1

\* critic_node: should_continue
ShouldContinue(research_is_sufficient, current_iteration, max_iterations) ==
    ~research_is_sufficient /\ current_iteration < max_iterations - 1

\* The FactCheckIteration record critic_node builds.
IterationRecord(current_iteration, fact_check, critic_feedback) ==
    [iteration |-> current_iteration, fact_check |-> fact_check,
     critic_feedback |-> critic_feedback]

\* Where the graph goes after critic_node.
RouteAfterCritic(continue) == IF continue THEN "fact_checker" ELSE "end"

Branches == {"model_a", "model_b"}

GraphInit ==
    /\ g_pc = "parallel"
    /\ g_done = {}
    /\ model_responses \in {None, EmptyResponses}
    /\ critic_iterations = 0
    /\ max_critic_iterations \in 0..MaxCriticBound
    /\ should_continue = FALSE
    /\ g_fact_checks = 0
    /\ g_critiques = 0
    /\ g_branch_out = [model_a |-> None, model_b |-> None]
    /\ g_seeds = <<>>
    /\ g_fc_outs = <<>>
    /\ g_critic_outs = <<>>

\* One of the two analysis branches returns ModelResponses(<its field> = analysis).
AnalysisBranch(b) ==
    /\ g_pc = "parallel"
    /\ b \notin g_done
    /\ \E analysis \in {a \in Analyses : a.by = b} :
        /\ model_responses' =
                MergeModelResponses(model_responses, [EmptyResponses EXCEPT ![b] = analysis])
        /\ g_branch_out' = [g_branch_out EXCEPT ![b] = analysis]
    /\ g_done' = g_done \cup {b}
    /\ g_pc' = IF g_done' = Branches THEN "supervisor" ELSE "parallel"
    /\ UNCHANGED <<critic_iterations, max_critic_iterations, should_continue,
                   g_fact_checks, g_critiques, g_seeds, g_fc_outs, g_critic_outs>>
    /\ UNCHANGED <<retryVars, toolVars, wrapVars, mergeVars, searchVars, streamVars, factToolVars, extractVars, truncateVars, wrapperVars, chainVars>>

ModelANode == AnalysisBranch("model_a")

ModelBNode == AnalysisBranch("model_b")

\* supervisor_node of nodes.py: the consolidation
ConsolidationNode ==
    /\ g_pc = "supervisor"
    /\ \E out \in SupervisorOutputs :
        model_responses' =
            MergeModelResponses(model_responses, [EmptyResponses EXCEPT !.supervisor = out])
    /\ g_pc' = "fact_checker"
    /\ UNCHANGED <<g_done, critic_iterations, max_critic_iterations, should_continue,
                   g_fact_checks, g_critiques, g_branch_out, g_seeds, g_fc_outs,
                   g_critic_outs>>
    /\ UNCHANGED <<retryVars, toolVars, wrapVars, mergeVars, searchVars, streamVars, factToolVars, extractVars, truncateVars, wrapperVars, chainVars>>

\* Variant: the prompt never carries the previous round.
SeedNever(responses) == None

\* fact_checker_node, "is_improvement": what the prompt is seeded with.
Seed(responses) ==
    IF responses.critic_current # None
        THEN [previous_fact_check |-> responses.fact_check_current,
              critic_feedback |-> responses.critic_current]
        ELSE None

FactCheckerNode ==
    /\ g_pc = "fact_checker"
    /\ g_seeds' = Append(g_seeds, Seed(model_responses))
    /\ \E fact_check_output \in FactChecks :
        /\ model_responses' =
                MergeModelResponses(model_responses,
                    [EmptyResponses EXCEPT !.fact_check_current = fact_check_output])
        /\ g_fc_outs' = Append(g_fc_outs, fact_check_output)
    /\ g_fact_checks' = g_fact_checks + 1
    /\ g_pc' = "critic"
    /\ UNCHANGED <<g_done, critic_iterations, max_critic_iterations, should_continue,
                   g_critiques, g_branch_out, g_critic_outs>>
    /\ UNCHANGED <<retryVars, toolVars, wrapVars, mergeVars, searchVars, streamVars, factToolVars, extractVars, truncateVars, wrapperVars, chainVars>>

CriticNode ==
    /\ g_pc = "critic"
    /\ \E critic_feedback \in CriticFeedbacks :
        LET current_iteration == critic_iterations
            iteration == IterationRecord(current_iteration,
                            model_responses.fact_check_current, critic_feedback)
            continue == ShouldContinue(critic_feedback.research_is_sufficient,
                            current_iteration, max_critic_iterations)
        IN  /\ model_responses' =
                    MergeModelResponses(model_responses,
                        [EmptyResponses EXCEPT !.critic_current = critic_feedback,
                                               !.fact_check_iterations = <<iteration>>])
            /\ critic_iterations' = current_iteration + 1
            /\ should_continue' = continue
            /\ g_pc' = RouteAfterCritic(continue)
            /\ g_critic_outs' = Append(g_critic_outs, critic_feedback)
    /\ g_critiques' = g_critiques + 1
    /\ UNCHANGED <<g_done, max_critic_iterations, g_fact_checks, g_branch_out,
                   g_seeds, g_fc_outs>>
    /\ UNCHANGED <<retryVars, toolVars, wrapVars, mergeVars, searchVars, streamVars, factToolVars, extractVars, truncateVars, wrapperVars, chainVars>>

\* A node raises (model invocation, extraction or validation): the run fails.
GraphNodeRaises ==
    /\ g_pc \in {"parallel", "supervisor", "fact_checker", "critic"}
    /\ g_pc' = "failed"
    /\ UNCHANGED <<g_done, model_responses, critic_iterations, max_critic_iterations,
                   should_continue, g_fact_checks, g_critiques, g_branch_out,
                   g_seeds, g_fc_outs, g_critic_outs>>
    /\ UNCHANGED <<retryVars, toolVars, wrapVars, mergeVars, searchVars, streamVars, factToolVars, extractVars, truncateVars, wrapperVars, chainVars>>

GraphNext ==
    \/ ModelANode
    \/ ModelBNode
    \/ ConsolidationNode
    \/ FactCheckerNode
    \/ CriticNode
    \/ GraphNodeRaises

(***************************************************************************)
(* merge_model_responses applied to arbitrary arguments.  A field value is *)
(* tagged with the argument it comes from.                                 *)
(***************************************************************************)
ScalarFields ==
    {"model_a", "model_b", "supervisor", "fact_check_current", "critic_current"}

\* The fact_check_iterations lists of one argument, one per length.
HistoryLists(tag) ==
    {[k \in 1..n |-> [from |-> tag, iteration |-> k - 1]] : n \in 0..MaxHistLen}

ModelResponsesValues(tag) ==
    {[model_a |-> f["model_a"], model_b |-> f["model_b"],
      supervisor |-> f["supervisor"],
      fact_check_current |-> f["fact_check_current"],
      critic_current |-> f["critic_current"],
      fact_check_iterations |-> h] :
        f \in [ScalarFields -> {None, [from |-> tag]}], h \in HistoryLists(tag)}

MergeInit ==
    /\ m_left \in {None} \cup ModelResponsesValues("left")
    /\ m_right \in ModelResponsesValues("right")
    /\ m_out = None

ApplyMerge ==
    /\ m_out = None
    /\ m_out' = MergeModelResponses(m_left, m_right)
    /\ UNCHANGED <<m_left, m_right>>
    /\ UNCHANGED <<retryVars, toolVars, wrapVars, graphVars, searchVars, streamVars, factToolVars, extractVars, truncateVars, wrapperVars, chainVars>>

MergeNext == ApplyMerge

(***************************************************************************)
(* One search-tool call of a tool loop (fact_check_claims,                 *)
(* fact_checker_node, critic_node): tool.invoke, the URL filter and the    *)
(* tool-result turn.  A search result is the Tavily dict with its list of  *)
(* results, or plain text; whether a URL answers is written next to it.    *)
(***************************************************************************)
Urls == {"u1", "u2"}
ResultEntries ==
    {[url |-> u, reachable |-> r] : u \in Urls, r \in BOOLEAN} \cup {[title |-> "t"]}

SeqsUpTo(S, n) == UNION {[1..k -> S] : k \in 0..n}

SearchResults ==
    {[kind |-> "dict", results |-> r] : r \in SeqsUpTo(ResultEntries, MaxResults)}
    \cup {[kind |-> "text"]}

\* is_url_accessible, and False for an entry without "url"
IsUrlAccessible(entry) == "url" \in DOMAIN entry /\ entry.reachable

\* What the body of validate_and_filter_search_results computes when it runs.
ValidateAndFilterSearchResults(tool_result) ==
    IF tool_result.kind = "dict"
        THEN [tool_result EXCEPT !.results = SelectSeq(@, IsUrlAccessible)]
        ELSE tool_result

\* Calling an async function without await: the value is a coroutine object,
\* the body does not run.
Coroutine(fn, arg) == [coroutine |-> fn]

\* str(value)
Str(v) == [str_of |-> v]

SearchSites == {"fact_check_claims", "fact_checker_node", "critic_node"}

SearchResultTurn(content) ==
    [role |-> "tool", tool_call_id |-> CallId(0, 1), content |-> content]

SearchInit ==
    /\ s_site \in SearchSites
    /\ s_tool \in SearchToolNames
    /\ s_pc = "call"
    /\ s_raw = None
    /\ s_turn = None

\* tool.invoke returns: "tool_result = validate_and_filter_search_results(
\* tool_result)" in a plain (not async) function, then
\* ToolMessage(content=str(tool_result)).
SearchToolReturns ==
    /\ s_pc = "call"
    /\ \E tool_result \in SearchResults :
        /\ s_raw' = tool_result
        /\ s_turn' = SearchResultTurn(
                        Str(Coroutine("validate_and_filter_search_results", tool_result)))
    /\ s_pc' = "done"
    /\ UNCHANGED <<s_site, s_tool>>
    /\ UNCHANGED <<retryVars, toolVars, wrapVars, graphVars, mergeVars, streamVars, factToolVars, extractVars, truncateVars, wrapperVars, chainVars>>

\* tool.invoke raises: the except branch appends the error description.
SearchToolRaises ==
    /\ s_pc = "call"
    /\ s_raw' = None
    /\ s_turn' = SearchResultTurn([error |-> TRUE])
    /\ s_pc' = "done"
    /\ UNCHANGED <<s_site, s_tool>>
    /\ UNCHANGED <<retryVars, toolVars, wrapVars, graphVars, mergeVars, streamVars, factToolVars, extractVars, truncateVars, wrapperVars, chainVars>>

SearchNext ==
    \/ SearchToolReturns
    \/ SearchToolRaises

(***************************************************************************)
(* generate_sse_events: the event stream of one analysis request.  The    *)
(* async generator runs from one yield to the next each time the consumer  *)
(* asks for an event; a consumer that goes away closes it at the yield it  *)
(* is suspended at.                                                        *)
(***************************************************************************)
Transcripts == StringsUpTo(MaxTranscriptLen)
Metadata == {None, [title |-> "t"]}
SessionIds == {None, [id |-> "s1"]}

\* The positional parameters of stream_analysis(transcript, metadata=None)
StreamAnalysisParams == <<"transcript", "metadata">>

TypeErrorExc(given) == [type |-> "TypeError", positional |-> given]

\* Calling a function (here an async generator function) binds the
\* positional arguments first: more arguments than parameters raise
\* TypeError at the call, before anything of the body runs.
Call(params, args) ==
    IF Len(args) > Len(params)
        THEN Raise(TypeErrorExc(Len(args)))
        ELSE Return([generator |-> "stream_analysis"])

\* f"data: {json.dumps(payload)}\n\n"
Sse(payload) == [data |-> payload]

StartedEvent ==
    Sse([stage |-> "started", message |-> "Starting podcast analysis workflow..."])

\* Variant: the failure event has no message.
ErrorEventNoMessage(e) == Sse([stage |-> "error", traceback |-> e.type])

\* error_data of the except clause
ErrorEvent(e) == Sse([stage |-> "error", message |-> Str(e), traceback |-> e.type])

\* Variant: the exception is logged and nothing is sent.
OnExceptionSilent(e) == <<>>

\* except Exception as e: what the clause yields
OnException(e) == <<ErrorEvent(e)>>

StreamInit ==
    /\ e_transcript \in Transcripts
    /\ e_metadata \in Metadata
    /\ e_session_id \in SessionIds
    /\ e_pc = "created"
    /\ e_events = <<>>
    /\ e_log = <<>>
    /\ e_exc = None
    /\ e_pipeline = "not_called"
    /\ e_session_ctx = None
    /\ e_abandoned = FALSE

\* The consumer asks for the first event: the generator runs to the yield
\* of the 'started' event.
StreamStarts ==
    /\ e_pc = "created"
    /\ e_session_ctx' = e_session_id               \* if session_id: set_session_context
    /\ e_log' = Append(e_log, "started")
    /\ e_events' = Append(e_events, StartedEvent)
    /\ e_pc' = "at_started"
    /\ UNCHANGED <<e_transcript, e_metadata, e_session_id, e_exc, e_pipeline,
                   e_abandoned>>
    /\ UNCHANGED <<retryVars, toolVars, wrapVars, graphVars, mergeVars, searchVars, factToolVars, extractVars, truncateVars, wrapperVars, chainVars>>

\* The consumer asks for the next event: the generator goes on to
\* "async for event in stream_analysis(transcript, metadata, session_id)".
\* The call passes three positional arguments and stream_analysis takes
\* two, so the call raises TypeError: the body of the loop (the progress
\* events) and the code after it (the 'complete' event) are not reached.
\* The exception is caught by "except Exception", logged, and the generator
\* suspends at the yield of the clause.
StreamCallsPipeline ==
    /\ e_pc = "at_started"
    /\ LET called == Call(StreamAnalysisParams,
                          <<e_transcript, e_metadata, e_session_id>>)
       IN  /\ called.kind = "raise"
           /\ e_exc' = called.exc
           /\ e_pipeline' = "call_failed"
           /\ e_log' = Append(e_log, "error")
           /\ e_events' = e_events \o OnException(called.exc)
    /\ e_pc' = "at_error"
    /\ UNCHANGED <<e_transcript, e_metadata, e_session_id, e_session_ctx,
                   e_abandoned>>
    /\ UNCHANGED <<retryVars, toolVars, wrapVars, graphVars, mergeVars, searchVars, factToolVars, extractVars, truncateVars, wrapperVars, chainVars>>

\* The consumer asks once more: the generator leaves the except clause, runs
\* the finally clause and ends.
StreamEnds ==
    /\ e_pc = "at_error"
    /\ e_session_ctx' = None                       \* clear_session_context
    /\ e_pc' = "closed"
    /\ UNCHANGED <<e_transcript, e_metadata, e_session_id, e_events, e_log,
                   e_exc, e_pipeline, e_abandoned>>
    /\ UNCHANGED <<retryVars, toolVars, wrapVars, graphVars, mergeVars, searchVars, factToolVars, extractVars, truncateVars, wrapperVars, chainVars>>

\* The consumer goes away (client disconnect): GeneratorExit, or the
\* cancellation of the task, is raised at the yield the generator is
\* suspended at.  Neither is an Exception: no except clause of the function
\* catches it, nothing is logged, only the finally clause runs.
ConsumerAbandons ==
    /\ e_pc \in {"at_started", "at_error"}
    /\ e_abandoned' = TRUE
    /\ e_session_ctx' = None
    /\ e_pc' = "closed"
    /\ UNCHANGED <<e_transcript, e_metadata, e_session_id, e_events, e_log,
                   e_exc, e_pipeline>>
    /\ UNCHANGED <<retryVars, toolVars, wrapVars, graphVars, mergeVars, searchVars, factToolVars, extractVars, truncateVars, wrapperVars, chainVars>>

StreamNext ==
    \/ StreamStarts
    \/ StreamCallsPipeline
    \/ StreamEnds
    \/ ConsumerAbandons

(***************************************************************************)
(* fact_check_claims_tool: the supervisor's wrapper of the fact-checking   *)
(* specialist.  The argument is a text; when it is JSON its value is a     *)
(* list of entries, an object (iterating it gives its keys), a string      *)
(* (iterating it gives its characters) or a number.                        *)
(***************************************************************************)
StatementEntries ==
    {[kind |-> "object", fields_ok |-> TRUE, id |-> i] : i \in {"s1", "s2"}}
    \cup {[kind |-> "object", fields_ok |-> FALSE], [kind |-> "number"]}

StatementJsonValues ==
    {[kind |-> "list", items |-> l] : l \in SeqsUpTo(StatementEntries, MaxStatements)}
    \cup {[kind |-> k, size |-> n] : k \in {"object", "string"}, n \in 0..1}
    \cup {[kind |-> "number"]}

StatementTexts ==
    {[wellformed |-> FALSE]}
    \cup {[wellformed |-> TRUE, value |-> v] : v \in StatementJsonValues}

Contexts == {"c1", "c2"}

\* What "for stmt in statements_data" goes through.
Iterate(v) ==
    IF v.kind = "list" THEN Return(v.items)
    ELSE IF v.kind \in {"object", "string"}
        THEN Return([i \in 1..v.size |-> [kind |-> "string"]])
    ELSE Raise([type |-> "TypeError"])                     \* not iterable

\* FactualStatement(**stmt): ** needs a mapping, the model needs its fields.
NewFactualStatement(stmt) ==
    IF stmt.kind # "object" THEN Raise([type |-> "TypeError"])
    ELSE IF stmt.fields_ok THEN Return([statement |-> stmt.id])
    ELSE Raise([type |-> "ValidationError"])

\* json.loads and the list comprehension of the try block
ParseStatements(text) ==
    IF ~text.wellformed THEN Raise(JSONDecodeErrorExc)
    ELSE LET iter == Iterate(text.value)
         IN  IF iter.kind = "raise" THEN iter
             ELSE LET made == [i \in DOMAIN iter.value |-> NewFactualStatement(iter.value[i])]
                      failed == {i \in DOMAIN made : made[i].kind = "raise"}
                  IN  IF failed # {}
                        THEN made[CHOOSE i \in failed : \A j \in failed : i <= j]
                        ELSE Return([i \in DOMAIN made |-> made[i].value])

DefaultResult ==
    [verified_claims |->
        <<[claim |-> "No factual statements found to verify",
           verification_status |-> "unverified"]>>,
     overall_reliability |-> 1, research_quality |-> 1]

ErrorPayload(error) ==
    [error |-> error, verified_claims |-> <<>>,
     overall_reliability |-> 0, research_quality |-> 0]

\* What fact_check_claims does when it is called, and the payload made of it.
SpecialistOutcomes == {"output", "ValidationError", "Exception"}

SpecialistPayload(outcome, factual_statements) ==
    IF outcome = "output"
        THEN [verified_claims |->
                [i \in DOMAIN factual_statements |->
                    [claim |-> factual_statements[i].statement,
                     verification_status |-> "fact-checked"]],
              overall_reliability |-> 1, research_quality |-> 1]
    ELSE IF outcome = "ValidationError"
        THEN ErrorPayload("ValidationError - The fact-checking output did not meet requirements")
    ELSE ErrorPayload("Unexpected error")

SpecialistCall(factual_statements, context) ==
    [factual_statements |-> factual_statements, context |-> context]

\* Variant: an empty list of statements goes to the specialist like any other.
FactCheckClaimsToolNoEmptyCheck(text, context, outcome) ==
    LET parsed == ParseStatements(text)
    IN  IF parsed.kind = "raise"
            THEN [result |-> IF parsed.exc = JSONDecodeErrorExc
                                THEN ErrorPayload("Invalid JSON in factual_statements_json")
                                ELSE ErrorPayload("Invalid factual statement data"),
                  calls |-> <<>>]
        ELSE [result |-> SpecialistPayload(outcome, parsed.value),
              calls |-> <<SpecialistCall(parsed.value, context)>>]

\* fact_check_claims_tool(factual_statements_json, context); outcome is what
\* the specialist does if it is called.
FactCheckClaimsTool(text, context, outcome) ==
    LET parsed == ParseStatements(text)
    IN  IF parsed.kind = "raise"
            THEN [result |-> IF parsed.exc = JSONDecodeErrorExc
                                THEN ErrorPayload("Invalid JSON in factual_statements_json")
                                ELSE ErrorPayload("Invalid factual statement data"),
                  calls |-> <<>>]
        ELSE IF Len(parsed.value) = 0
            THEN [result |-> DefaultResult, calls |-> <<>>]
        ELSE [result |-> SpecialistPayload(outcome, parsed.value),
              calls |-> <<SpecialistCall(parsed.value, context)>>]

FactToolInit ==
    /\ f_json \in StatementTexts
    /\ f_context \in Contexts
    /\ f_pc = "call"
    /\ f_result = None
    /\ f_specialist_calls = <<>>

FactToolCall ==
    /\ f_pc = "call"
    /\ \E outcome \in SpecialistOutcomes :
        LET ret == FactCheckClaimsTool(f_json, f_context, outcome)
        IN  /\ f_result' = ret.result
            /\ f_specialist_calls' = f_specialist_calls \o ret.calls
    /\ f_pc' = "done"
    /\ UNCHANGED <<f_json, f_context>>
    /\ UNCHANGED <<retryVars, toolVars, wrapVars, graphVars, mergeVars, searchVars,
                   streamVars, extractVars, truncateVars, wrapperVars, chainVars>>

FactToolNext == FactToolCall

(***************************************************************************)
(* _parse_json_response called on its own, up to twice with the same       *)
(* arguments.                                                              *)
(***************************************************************************)
\* Texts handed to the extractor: those a model response carries, and JSON
\* objects with unescaped control characters.
ExtractTexts == ResponseTexts \cup {GoodText(TRUE, d) : d \in JsonValues}

ExtractInit ==
    /\ x_text \in ExtractTexts
    /\ x_shape \in Shapes
    /\ x_runs = <<>>

Extract ==
    /\ Len(x_runs) < MaxExtractions
    /\ x_runs' = Append(x_runs, ParseJsonRun(x_text, x_shape, Len(x_runs)))
    /\ UNCHANGED <<x_text, x_shape>>
    /\ UNCHANGED <<retryVars, toolVars, wrapVars, graphVars, mergeVars, searchVars, streamVars, factToolVars, truncateVars, wrapperVars, chainVars>>

ExtractNext == Extract

(***************************************************************************)
(* The string_too_long branch of _auto_fix_validation on its own, with     *)
(* limits up to MaxLimit: at max_length = 10 the last space of the cut can *)
(* lie exactly at 80% of the limit with a word character after it.         *)
(***************************************************************************)
TruncateInit ==
    /\ u_original_value \in StringsUpTo(MaxValueLen)
    /\ u_max_length \in 1..MaxLimit
    /\ u_pc = "call"
    /\ u_truncated = <<>>

Truncate ==
    /\ u_pc = "call"
    /\ u_truncated' = TruncateField(u_original_value, u_max_length)
    /\ u_pc' = "done"
    /\ UNCHANGED <<u_original_value, u_max_length>>
    /\ UNCHANGED <<retryVars, toolVars, wrapVars, graphVars, mergeVars, searchVars, streamVars, factToolVars, extractVars, wrapperVars, chainVars>>

TruncateNext == Truncate

(***************************************************************************)
(* The supervisor's tool wrappers (summarize_podcast_tool,                 *)
(* extract_notes_tool and the specialist call of fact_check_claims_tool)   *)
(* and what supervisor_node does with the result of one call.              *)
(***************************************************************************)
\* What a wrapper hands to its specialist: the transcript, or the list of
\* statements built from factual_statements_json (not empty when the
\* specialist is called).
WrapperInputs(name) ==
    IF name = "fact_check_claims_tool"
        THEN {Return(l) : l \in SeqsUpTo({[statement |-> i] : i \in {"s1", "s2"}}, MaxStatements)
                                \ {<<>>}}
        ELSE {Return(t) : t \in Transcripts}

\* What the specialist does: it returns its output, or raises the
\* ValidationError of an exhausted retry loop, the error of a provider, the
\* ValueError of the extractor or anything else.
SpecialistBehaviours ==
    {Return("output")}
    \cup {Raise([type |-> t]) :
            t \in {"ValidationError", "TransportError", "ValueError", "KeyError"}}

\* json.dumps(output_dict) of the specialist's output
OutputPayload(name, input) == [tool |-> name, output_of |-> input]

\* The dict of the two except clauses
WrapperErrorPayload(name, error, error_type) ==
    [tool |-> name, error |-> error, error_type |-> error_type]

\* Variant: only validation errors are converted, the rest propagates.
ToolWrapperOnlyValidationErrors(name, input, behaviour) ==
    IF behaviour.kind = "return"
        THEN Return(OutputPayload(name, input))
    ELSE IF behaviour.exc.type = "ValidationError"
        THEN Return(WrapperErrorPayload(name, "ValidationError", "ValidationError"))
    ELSE behaviour

\* try: result = <specialist>(...); return json.dumps(output_dict)
\* except ValidationError: return json.dumps({"error": ...})
\* except Exception: return json.dumps({"error": ...})
ToolWrapper(name, input, behaviour) ==
    IF behaviour.kind = "return"
        THEN Return(OutputPayload(name, input))
    ELSE IF behaviour.exc.type = "ValidationError"
        THEN Return(WrapperErrorPayload(name, "ValidationError", "ValidationError"))
    ELSE Return(WrapperErrorPayload(name, "Unexpected error", behaviour.exc.type))

\* How supervisor_node sees what tool.invoke did.
OutcomeOf(ret) ==
    IF ret.kind = "raise" THEN "raise"
    ELSE IF "error" \in DOMAIN ret.value THEN "error_payload"
    ELSE "output"

WrapperInit ==
    /\ k_tool \in SupervisorToolNames
    /\ k_input \in WrapperInputs(k_tool)
    /\ k_specialist \in SpecialistBehaviours
    /\ k_pc = "call"
    /\ k_result = NoOutcome
    /\ k_outputs = NoOutputs
    /\ k_turns = <<>>

\* tool.invoke(tool_args) inside supervisor_node, and the handling of what
\* it gives.
WrapperCall ==
    /\ k_pc = "call"
    /\ LET ret == ToolWrapper(k_tool, k_input.value, k_specialist)
           st == SupervisorToolCall(
                    [msgs |-> <<>>, outputs |-> NoOutputs, count |-> 0,
                     raised |-> {}, returned |-> {}],
                    [name |-> k_tool, id |-> CallId(0, 1)], OutcomeOf(ret))
       IN  /\ k_result' = ret
           /\ k_outputs' = st.outputs
           /\ k_turns' = st.msgs
    /\ k_pc' = "done"
    /\ UNCHANGED <<k_tool, k_input, k_specialist>>
    /\ UNCHANGED <<retryVars, toolVars, wrapVars, graphVars, mergeVars, searchVars, streamVars, factToolVars, extractVars, truncateVars, chainVars>>

WrapperNext == WrapperCall

(***************************************************************************)
(* The model_responses channel of AgentState over a sequence of node       *)
(* updates: every update is merged into the channel with                   *)
(* merge_model_responses (Annotated[ModelResponses, merge_model_responses]).*)
(***************************************************************************)
ChainInit ==
    /\ c_acc = None
    /\ c_right = None
    /\ c_n = 0

\* One node returns {"model_responses": right}; the channel becomes
\* merge_model_responses(channel, right).
MergeUpdate ==
    /\ c_n < MaxMerges
    /\ \E right \in ModelResponsesValues("update") :
        /\ c_acc' = MergeModelResponses(c_acc, right)
        /\ c_right' = right
    /\ c_n' = c_n + 1
    /\ UNCHANGED <<retryVars, toolVars, wrapVars, graphVars, mergeVars, searchVars, streamVars, factToolVars, extractVars, truncateVars, wrapperVars>>

ChainNext == MergeUpdate

(***************************************************************************)
(* Components that are not in use                                          *)
(***************************************************************************)
WrapIdle ==
    /\ w_pc = "idle"
    /\ w_has_fallback = FALSE
    /\ w_original = <<>>
    /\ w_primary = None
    /\ w_fallback_runs = 0
    /\ w_fallback_start = <<>>
    /\ w_result = NoOutcome

GraphIdle ==
    /\ g_pc = "idle"
    /\ g_done = {}
    /\ model_responses = None
    /\ critic_iterations = 0
    /\ max_critic_iterations = 0
    /\ should_continue = FALSE
    /\ g_fact_checks = 0
    /\ g_critiques = 0
    /\ g_branch_out = None
    /\ g_seeds = <<>>
    /\ g_fc_outs = <<>>
    /\ g_critic_outs = <<>>

MergeIdle ==
    /\ m_left = None
    /\ m_right = None
    /\ m_out = None

SearchIdle ==
    /\ s_site = "none"
    /\ s_tool = "none"
    /\ s_pc = "idle"
    /\ s_raw = None
    /\ s_turn = None

StreamIdle ==
    /\ e_transcript = <<>>
    /\ e_metadata = None
    /\ e_session_id = None
    /\ e_pc = "idle"
    /\ e_events = <<>>
    /\ e_log = <<>>
    /\ e_exc = None
    /\ e_pipeline = "not_called"
    /\ e_session_ctx = None
    /\ e_abandoned = FALSE

FactToolIdle ==
    /\ f_json = [wellformed |-> FALSE]
    /\ f_context = "none"
    /\ f_pc = "idle"
    /\ f_result = None
    /\ f_specialist_calls = <<>>

ExtractIdle ==
    /\ x_text = NoResponse
    /\ x_shape = [min_length |-> 0, max_length |-> MaxM, min_items |-> 1]
    /\ x_runs = <<>>

TruncateIdle ==
    /\ u_original_value = <<>>
    /\ u_max_length = 0
    /\ u_pc = "idle"
    /\ u_truncated = <<>>

WrapperIdle ==
    /\ k_tool = "none"
    /\ k_input = NoOutcome
    /\ k_specialist = NoOutcome
    /\ k_pc = "idle"
    /\ k_result = NoOutcome
    /\ k_outputs = NoOutputs
    /\ k_turns = <<>>

ChainIdle ==
    /\ c_acc = None
    /\ c_right = None
    /\ c_n = -1

(***************************************************************************)
(* Specifications                                                          *)
(***************************************************************************)
\* One call of the validation-retry loop.
Init ==
    RetryInit /\ ToolIdle /\ WrapIdle /\ GraphIdle /\ MergeIdle
    /\ SearchIdle /\ StreamIdle /\ FactToolIdle /\ ExtractIdle /\ TruncateIdle /\ WrapperIdle /\ ChainIdle

Next == RetryNext

Spec == Init /\ [][Next]_vars

\* One run of a tool-calling loop with per-iteration failover.
ToolSpecInit ==
    ToolInit /\ RetryIdle /\ WrapIdle /\ GraphIdle /\ MergeIdle
    /\ SearchIdle /\ StreamIdle /\ FactToolIdle /\ ExtractIdle /\ TruncateIdle /\ WrapperIdle /\ ChainIdle

SpecTool == ToolSpecInit /\ [][ToolNext]_vars

\* One call of the failover wrapper, as summarize_podcast makes it: a
\* conversation holding the prompt and one record shape with a length limit.
FailoverInit ==
    /\ RetryInit
    /\ shape.max_length = MaxM
    /\ w_pc = "primary"
    /\ w_has_fallback \in BOOLEAN
    /\ w_original = <<PromptTurn>>
    /\ w_primary = None
    /\ w_fallback_runs = 0
    /\ w_fallback_start = <<>>
    /\ w_result = NoOutcome
    /\ ToolIdle /\ GraphIdle /\ MergeIdle /\ SearchIdle /\ StreamIdle /\ FactToolIdle /\ ExtractIdle /\ TruncateIdle /\ WrapperIdle /\ ChainIdle

SpecFailover == FailoverInit /\ [][FailoverNext]_vars

\* One run of the analysis graph with its critique loop.
GraphSpecInit ==
    GraphInit /\ RetryIdle /\ ToolIdle /\ WrapIdle /\ MergeIdle
    /\ SearchIdle /\ StreamIdle /\ FactToolIdle /\ ExtractIdle /\ TruncateIdle /\ WrapperIdle /\ ChainIdle

SpecGraph == GraphSpecInit /\ [][GraphNext]_vars

\* One application of merge_model_responses.
MergeSpecInit ==
    MergeInit /\ RetryIdle /\ ToolIdle /\ WrapIdle /\ GraphIdle
    /\ SearchIdle /\ StreamIdle /\ FactToolIdle /\ ExtractIdle /\ TruncateIdle /\ WrapperIdle /\ ChainIdle

SpecMerge == MergeSpecInit /\ [][MergeNext]_vars

\* One search-tool call of a tool loop.
SearchSpecInit ==
    SearchInit /\ RetryIdle /\ ToolIdle /\ WrapIdle /\ GraphIdle /\ MergeIdle
    /\ StreamIdle /\ FactToolIdle /\ ExtractIdle /\ TruncateIdle /\ WrapperIdle /\ ChainIdle

SpecSearch == SearchSpecInit /\ [][SearchNext]_vars

\* The event stream of one analysis request.
StreamSpecInit ==
    StreamInit /\ RetryIdle /\ ToolIdle /\ WrapIdle /\ GraphIdle /\ MergeIdle
    /\ SearchIdle /\ FactToolIdle /\ ExtractIdle /\ TruncateIdle /\ WrapperIdle /\ ChainIdle

SpecStream == StreamSpecInit /\ [][StreamNext]_vars

\* One call of fact_check_claims_tool.
FactToolSpecInit ==
    FactToolInit /\ RetryIdle /\ ToolIdle /\ WrapIdle /\ GraphIdle /\ MergeIdle
    /\ SearchIdle /\ StreamIdle /\ ExtractIdle /\ TruncateIdle /\ WrapperIdle /\ ChainIdle

SpecFactTool == FactToolSpecInit /\ [][FactToolNext]_vars

\* Calls of _parse_json_response with one text and one record shape.
ExtractSpecInit ==
    ExtractInit /\ RetryIdle /\ ToolIdle /\ WrapIdle /\ GraphIdle
    /\ MergeIdle /\ SearchIdle /\ StreamIdle /\ FactToolIdle /\ TruncateIdle /\ WrapperIdle /\ ChainIdle

SpecExtract == ExtractSpecInit /\ [][ExtractNext]_vars

\* One pass of the string_too_long branch of the repair engine.
TruncateSpecInit ==
    TruncateInit /\ RetryIdle /\ ToolIdle /\ WrapIdle /\ GraphIdle
    /\ MergeIdle /\ SearchIdle /\ StreamIdle /\ FactToolIdle /\ ExtractIdle /\ WrapperIdle /\ ChainIdle

SpecTruncate == TruncateSpecInit /\ [][TruncateNext]_vars

\* One call of a supervisor tool wrapper from supervisor_node.
WrapperSpecInit ==
    WrapperInit /\ RetryIdle /\ ToolIdle /\ WrapIdle /\ GraphIdle
    /\ MergeIdle /\ SearchIdle /\ StreamIdle /\ FactToolIdle /\ ExtractIdle /\ TruncateIdle /\ ChainIdle

SpecWrapper == WrapperSpecInit /\ [][WrapperNext]_vars

\* A sequence of updates merged into the model_responses channel.
ChainSpecInit ==
    ChainInit /\ RetryIdle /\ ToolIdle /\ WrapIdle /\ GraphIdle
    /\ MergeIdle /\ SearchIdle /\ StreamIdle /\ FactToolIdle /\ ExtractIdle /\ TruncateIdle /\ WrapperIdle

SpecChain == ChainSpecInit /\ [][ChainNext]_vars

(***************************************************************************)
(* Properties of the validation-retry loop, the extractor and the repair   *)
(* engine (checked under Spec).                                            *)
(***************************************************************************)
Ended == pc # "loop"
EndedDirect == pc = "returned" /\ repair_calls = <<>>

\* The last permitted attempt failed schema validation.
LastAttemptInvalid ==
    /\ Ended
    /\ attempt = max_retries
    /\ KindOf(response, shape) = "invalid"

LastError == ValidationErrorOf(attempt, ValidationErrors(response.data, shape))

TooLongOnly ==
    <<ErrDetail(<<"final_summary">>, "string_too_long", shape.max_length)>>

\* C1: one call of the validation-retry loop with max_retries = N invokes
\* the model at most N + 1 times, however the model answers.
C1_AtMostNPlusOneInvocations == llm_calls <= max_retries + 1

C1_Witness ==
    /\ Ended
    /\ max_retries = 2
    /\ llm_calls = max_retries + 1

\* C2: the loop returns at the first attempt whose response validates: no
\* conforming response is ever answered by a corrective prompt, and a direct
\* return on attempt k (= attempt + 1) has made exactly k invocations, sent
\* exactly k - 1 corrective prompts and returns the record of that attempt.
C2_ReturnsAtFirstValidAttempt ==
    /\ "conforming" \notin retried_kinds
    /\ (Ended /\ Conforms(response, shape)) => EndedDirect
    /\ EndedDirect =>
        /\ llm_calls = attempt + 1
        /\ corrective = attempt
        /\ Conforms(response, shape)
        /\ result = Return(response.data.fields)

C2_Witness ==
    /\ EndedDirect
    /\ attempt = 1
    /\ corrective = 1
    /\ llm_calls = 2

\* C3: when the last permitted attempt fails schema validation, the repair
\* engine is run exactly once, on the value parsed from that last response;
\* the loop returns the repaired record if the repair succeeds and otherwise
\* raises the ValidationError of that last attempt (also when the repair
\* cannot work on the parsed value because it is not a dict).  The repair
\* engine is never run in any other situation.
C3_ExhaustionRepairsOnceOrRaisesLast ==
    /\ repair_calls # <<>> => LastAttemptInvalid
    /\ LastAttemptInvalid =>
        /\ repair_calls = <<response.data>>
        /\ llm_calls = max_retries + 1
        /\ IF repair_out.kind = "return"
              THEN pc = "returned" /\ result = repair_out
              ELSE pc = "raised" /\ result = Raise(LastError)

C3_Witness ==
    /\ LastAttemptInvalid
    /\ max_retries = 1
    /\ pc = "returned"
    /\ result.value # response.data.fields

C3_WitnessRaises ==
    /\ LastAttemptInvalid
    /\ response.data.kind = "scalar"
    /\ result = Raise(LastError)

\* C4: whatever it is given, the repair engine either returns a record that
\* validates against the record shape or raises the very ValidationError
\* it was given; it raises nothing else.
C4_RepairReturnsValidOrRaisesOriginal ==
    repair_calls # <<>> =>
        \/ repair_out.kind = "return" /\ SatisfiesShape(repair_out.value, shape)
        \/ repair_out = Raise(LastError)

\* C5: every record returned by the extractor or by the retry loop, directly
\* or through the repair fallback, satisfies every declared constraint of
\* the requested record shape.
C5_ReturnedRecordSatisfiesShape ==
    pc = "returned" =>
        /\ result.kind = "return"
        /\ SatisfiesShape(result.value, shape)

C5_Witness ==
    /\ pc = "returned"
    /\ repair_calls # <<>>
    /\ Len(response.data.fields.final_summary) > shape.max_length

C5_WitnessDirect ==
    /\ EndedDirect
    /\ Len(result.value.final_summary) = shape.max_length

\* C6: a response that cannot be parsed as JSON even after sanitization is
\* not retried: the ValueError reaches the caller after that one invocation,
\* no corrective turn is appended for it and the repair engine is not run.
C6_ExtractionErrorNotRetried ==
    /\ "unparseable" \notin retried_kinds
    /\ (Ended /\ KindOf(response, shape) = "unparseable" /\ response # NoResponse) =>
        /\ pc = "raised"
        /\ result = Raise(ValueErrorExc)
        /\ repair_calls = <<>>
        /\ llm_calls = attempt + 1
        /\ corrective = attempt
        /\ Len(messages) = 1 + 2 * attempt

C6_Witness ==
    /\ pc = "raised"
    /\ result = Raise(ValueErrorExc)
    /\ max_retries = 2
    /\ attempt = 0
    /\ response.raw_ctrl

\* C7: when the only violation of the last response is an over-long string,
\* the repair always succeeds and the returned field is at most max_length
\* characters long.
C7_TooLongAlwaysRepaired ==
    (LastAttemptInvalid /\ ValidationErrors(response.data, shape) = TooLongOnly) =>
        /\ pc = "returned"
        /\ Len(result.value.final_summary) <= shape.max_length

(***************************************************************************)
(* Properties of the per-iteration failover of the tool-calling loops      *)
(* (checked under SpecTool).                                               *)
(***************************************************************************)
PrimaryOk == t_invoked # <<>> /\ t_invoked[1].ok
PrimaryFailed == t_invoked # <<>> /\ ~t_invoked[1].ok
FallbackInvoked == \E k \in 1..Len(t_invoked) : t_invoked[k].by = "fallback"

C9_NoFallbackPropagatesPrimaryError ==
    (PrimaryFailed /\ ~t_fallback) =>
        /\ t_pc = "raised"
        /\ t_exc = ModelError("primary", t_iteration)
        /\ Len(t_invoked) = 1

C9_Witness ==
    /\ t_loop = "fact_check"
    /\ ~t_fallback
    /\ t_iteration = 1
    /\ t_pc = "raised"
    /\ PrimaryFailed

\* C10: if the primary raises and the configured fallback raises too, the
\* exception that reaches the caller is the fallback's, not the primary's.
C10_BothFailRaisesFallbackError ==
    (PrimaryFailed /\ FallbackInvoked /\ ~t_invoked[Len(t_invoked)].ok) =>
        /\ t_pc = "raised"
        /\ t_exc = ModelError("fallback", t_iteration)
        /\ t_exc # ModelError("primary", t_iteration)

C10_Witness ==
    /\ t_fallback
    /\ t_pc = "raised"
    /\ Len(t_invoked) = 2
    /\ t_exc.by = "fallback"

(***************************************************************************)
(* Properties of the tool-calling loops (checked under SpecTool).          *)
(***************************************************************************)
IsAi(k) == t_messages[k].role = "ai"
IsTool(k) == t_messages[k].role = "tool"
AiIndexes == {k \in 1..Len(t_messages) : IsAi(k)}
AiCount == Cardinality(AiIndexes)

\* The tool-result turns that carry a call id.
AnswersTo(id) == {i \in 1..Len(t_messages) : IsTool(i) /\ t_messages[i].tool_call_id = id}

\* Index i lies after the model turn at k and before the next model turn.
BeforeNextAi(k, i) == i > k /\ \A j \in AiIndexes : ~(k < j /\ j < i)

\* Index of the second model turn of the conversation (when there is one).
SecondAi ==
    CHOOSE k \in AiIndexes : Cardinality({j \in AiIndexes : j < k}) = 1

\* The turns the loop starts from.
InitialTurns == IF t_loop = "supervisor" THEN <<SystemTurn, HumanTurn>> ELSE <<HumanTurn>>

\* C13: every tool-calling loop (supervisor, fact-checking agent, fact-checker
\* and critic nodes) makes at most max_iterations passes and model turns,
\* whatever the model requests; a loop that used up its budget has been left
\* normally, and the only exception that ever leaves a loop is one raised by
\* a model invocation.
C13_ToolLoopStopsWithinBudget ==
    /\ t_iteration <= t_max_iterations
    /\ AiCount <= t_max_iterations
    /\ t_iteration = t_max_iterations => (t_pc = "after_loop" /\ t_exc = NoExc)
    /\ t_pc = "raised" => (t_exc.type = "TransportError" /\ t_iteration < t_max_iterations)

C13_Witness ==
    /\ t_loop = "critic_node"
    /\ t_max_iterations = 2
    /\ t_iteration = t_max_iterations
    /\ AiCount = 2
    /\ t_pc = "after_loop"
    /\ IsTool(Len(t_messages))

\* C14: every tool invocation requested by a model turn is answered by
\* exactly one tool-result turn carrying its call id, placed after that model
\* turn and before the next one; a request naming an unknown tool included.
C14_EveryRequestAnsweredOnce ==
    \A k \in AiIndexes :
        \A c \in 1..Len(t_messages[k].tool_calls) :
            LET id == t_messages[k].tool_calls[c].id
            IN  /\ Cardinality(AnswersTo(id)) = 1
                /\ \A i \in AnswersTo(id) : BeforeNextAi(k, i)

\* C15: a tool that raises never ends the loop: each such call is answered
\* by exactly one error tool-result turn and the loop is only ever left by an
\* exception of a model invocation.  With a model that requests one tool,
\* which raises, and then requests none, the loop is left after exactly two
\* model turns, the error tool-result turn lying between them.
C15_ToolFailureDoesNotAbort ==
    /\ \A id \in t_raised :
            /\ Cardinality(AnswersTo(id)) = 1
            /\ \A i \in AnswersTo(id) : t_messages[i].status = "error"
    /\ t_exc \in {NoExc} \cup {ModelError(by, t_iteration) : by \in {"primary", "fallback"}}
    /\ LET n == Len(InitialTurns)
       IN  (/\ Len(t_messages) >= n + 1
            /\ Len(t_messages[n + 1].tool_calls) = 1
            /\ t_messages[n + 1].tool_calls[1].id \in t_raised
            /\ AiCount >= 2
            /\ t_messages[SecondAi].tool_calls = <<>>)
           => /\ t_pc = "after_loop"
              /\ AiCount = 2
              /\ t_messages = InitialTurns \o
                    <<AiTurn(0, <<t_messages[n + 1].tool_calls[1].name>>),
                      ToolTurn(CallId(0, 1), "error"),
                      AiTurn(1, <<>>)>>

C15_Witness ==
    /\ t_loop = "fact_check"
    /\ t_max_iterations = 2
    /\ t_raised = {CallId(0, 1)}
    /\ AiCount = 2
    /\ t_pc = "after_loop"
    /\ Len(t_messages) = 4
    /\ IsTool(3)
    /\ t_messages[4].tool_calls = <<>>

\* C16: a loop stops at the first model turn that requests no tools: such a
\* turn is the last turn of the conversation (no tool is run and no model
\* turn is requested after it) and the loop has been left.
C16_StopsAtFirstTurnWithoutRequests ==
    \A k \in AiIndexes :
        t_messages[k].tool_calls = <<>> =>
            /\ k = Len(t_messages)
            /\ t_pc = "after_loop"
            /\ t_exc = NoExc

C16_Witness ==
    /\ t_loop = "supervisor"
    /\ t_max_iterations = 2
    /\ t_iteration = 0
    /\ AiCount = 1
    /\ t_pc = "after_loop"
    /\ t_messages[Len(t_messages)].tool_calls = <<>>

(***************************************************************************)
(* Properties of the failover wrapper (checked under SpecFailover).        *)
(***************************************************************************)
PrimaryRunFailed == w_primary # None /\ w_primary.exc_type # "none"

IsPrimaryLeftover(turn) == turn.kind \in {"response", "corrective"}

\* C11: when the primary retry-loop run fails and a fallback is configured,
\* exactly one retry-loop run is made against the fallback (and none in any
\* other case); the conversation it starts from is the one the caller handed
\* in, with none of the primary's failed responses or corrective prompts, and
\* the turns added to it afterwards are the fallback run's own; the run is a
\* full one, with its own budget of max_retries + 1 invocations.
C11_FallbackRunsOnceOnOriginalConversation ==
    /\ w_fallback_runs = (IF PrimaryRunFailed /\ w_has_fallback THEN 1 ELSE 0)
    /\ w_fallback_runs = Len(w_fallback_start)
    /\ w_fallback_runs = 1 =>
        /\ w_fallback_start[1] = w_original
        /\ \A k \in 1..Len(w_fallback_start[1]) :
                ~IsPrimaryLeftover(w_fallback_start[1][k])
        /\ Len(messages) = Len(w_original) + 2 * attempt
        /\ SubSeq(messages, 1, Len(w_original)) = w_original
        /\ llm_calls <= max_retries + 1
        /\ w_pc = "done" => (pc # "loop" /\ w_result = result)

C11_Witness ==
    /\ w_pc = "done"
    /\ w_fallback_runs = 1
    /\ max_retries = 2
    /\ Len(w_primary.messages) = Len(w_original) + 4
    /\ llm_calls = max_retries + 1
    /\ pc = "returned"

PrimaryAlwaysTransportError ==
    /\ PrimaryRunFailed
    /\ w_primary.exc_type = "TransportError"
    /\ w_primary.messages = w_original

FallbackOkOnFirstCall ==
    /\ w_pc = "done"
    /\ w_fallback_runs = 1
    /\ pc = "returned"
    /\ llm_calls = 1

\* C12 as stated: with a primary that raises a transport error on every call
\* and a fallback that succeeds on its first call, the wrapper returns the
\* fallback's record, the primary having been invoked max_retries + 1 times
\* and the fallback once.
C12_PrimaryInvokedNPlusOneTimes ==
    (PrimaryAlwaysTransportError /\ FallbackOkOnFirstCall) =>
        /\ w_result = result
        /\ w_primary.calls = max_retries + 1
        /\ llm_calls = 1

\* C12 amended: in that scenario the wrapper returns the fallback's validated
\* record, the primary having been invoked exactly once (the retry loop does
\* not catch a transport error, so the first one ends the primary run) and
\* the fallback exactly once.
C12_PrimaryInvokedOnce ==
    (PrimaryAlwaysTransportError /\ FallbackOkOnFirstCall) =>
        /\ w_result = result
        /\ result.kind = "return"
        /\ SatisfiesShape(w_result.value, shape)
        /\ w_primary.calls = 1
        /\ llm_calls = 1

C12_Witness ==
    /\ PrimaryAlwaysTransportError
    /\ FallbackOkOnFirstCall
    /\ max_retries = 2
    /\ w_result.kind = "return"

(***************************************************************************)
(* Properties of the critique loop and of the state merge (checked under   *)
(* SpecGraph and SpecMerge).                                               *)
(***************************************************************************)
History == IF model_responses = None THEN <<>> ELSE model_responses.fact_check_iterations

LastVerdict == History[Len(History)].critic_feedback.research_is_sufficient

\* The rounds a budget of max_critic_iterations allows: the first round is
\* made before the budget is consulted.
RoundBudget == IF max_critic_iterations > 1 THEN max_critic_iterations ELSE 1

C18_WitnessSatisfied ==
    /\ g_pc = "end"
    /\ max_critic_iterations = 3
    /\ LastVerdict
    /\ Len(History) = 2

\* C19: merge_model_responses(left, right) returns right when left is None;
\* otherwise each scalar/object field is right's value when right has one
\* and left's value when it has not, and fact_check_iterations is left's
\* list followed by right's list.
C19_MergeRightBiasedAndConcatenating ==
    m_out # None =>
        IF m_left = None THEN m_out = m_right
        ELSE /\ \A f \in ScalarFields :
                    /\ m_right[f] # None => m_out[f] = m_right[f]
                    /\ m_right[f] = None => m_out[f] = m_left[f]
             /\ LET l == m_left.fact_check_iterations
                    r == m_right.fact_check_iterations
                    o == m_out.fact_check_iterations
                IN  /\ Len(o) = Len(l) + Len(r)
                    /\ \A k \in 1..Len(l) : o[k] = l[k]
                    /\ \A k \in 1..Len(r) : o[Len(l) + k] = r[k]

C19_Witness ==
    /\ m_out # None
    /\ m_left # None
    /\ m_left.model_a # None /\ m_right.model_a # None
    /\ m_left.supervisor # None /\ m_right.supervisor = None
    /\ Len(m_left.fact_check_iterations) = 1
    /\ Len(m_right.fact_check_iterations) = 2

C19_WitnessLeftNone ==
    /\ m_out # None
    /\ m_left = None
    /\ m_right.model_b # None

\* C20: whichever of the two analysis branches is merged first, once a
\* branch's update is merged the state holds that branch's value in its own
\* field, and it stays there through every later merge; a field of a branch
\* that has not finished is unset.  With both branches done, model_a and
\* model_b are both present, each with its branch's value.
C20_ParallelBranchesBothKept ==
    /\ \A b \in g_done :
            /\ g_branch_out[b] # None
            /\ model_responses[b] = g_branch_out[b]
    /\ \A b \in Branches \ g_done :
            g_pc # "idle" => (model_responses = None \/ model_responses[b] = None)

C20_Witness ==
    /\ g_done = Branches
    /\ g_pc = "end"
    /\ model_responses.model_a.topics = 1
    /\ model_responses.model_b.topics = 2

(***************************************************************************)
(* Properties of the supervisor's consolidated result (checked under       *)
(* SpecTool).                                                              *)
(***************************************************************************)
SupervisorReturned == t_loop = "supervisor" /\ t_pc = "after_loop"

\* The specialist tools some model turn requested (tool.invoke was called).
InvokedTools ==
    {n \in SupervisorToolNames :
        \E k \in AiIndexes : \E i \in DOMAIN t_messages[k].tool_calls :
            t_messages[k].tool_calls[i].name = n}

\* The specialist tools whose tool.invoke returned at least once.
RanTools == {r.tool : r \in t_returned}

Section(out, n) ==
    IF n = "summarize_podcast_tool" THEN out.summary
    ELSE IF n = "extract_notes_tool" THEN out.notes
    ELSE out.fact_check

\* C21: whenever supervisor_node returns normally, each of the three
\* specialist tools (summarize, extract notes, fact-check) has been invoked
\* at least once.
C21_EverySpecialistInvoked ==
    SupervisorReturned => InvokedTools = SupervisorToolNames

\* C22: when supervisor_node returns, for every specialist tool that ran at
\* least once the matching section of the consolidated result is an output
\* that tool returned, not the empty default.
C22_ConsolidatedHoldsEveryOutput ==
    SupervisorReturned =>
        /\ supervisor_output # None
        /\ \A n \in RanTools :
            LET section == Section(supervisor_output, n)
            IN  /\ section # EmptyDict
                /\ section \in t_returned
                /\ section.tool = n

\* All three specialists ran, the summarizer with its error payload.
C22_Witness ==
    /\ SupervisorReturned
    /\ RanTools = SupervisorToolNames
    /\ supervisor_output.summary.kind = "error_payload"
    /\ supervisor_output.fact_check.kind = "output"

\* One specialist ran and its tool raised when requested again: its section
\* keeps the earlier output, the other sections the empty default.
C22_WitnessRaisedLater ==
    /\ SupervisorReturned
    /\ RanTools = {"extract_notes_tool"}
    /\ supervisor_output.notes = ToolResult("extract_notes_tool", "output", CallId(0, 1))
    /\ CallId(1, 1) \in t_raised
    /\ t_messages[5].tool_calls[1].name = "extract_notes_tool"
    /\ supervisor_output.summary = EmptyDict

(***************************************************************************)
(* The caller's conversation and the caller's data (checked under Spec).   *)
(***************************************************************************)
\* C23: after _invoke_llm_with_validation_retry returns or raises, the
\* conversation list of the caller holds exactly the turns it held before
\* the call.
C23_CallerConversationUnchanged ==
    Ended => messages = <<PromptTurn>>

\* The top-level fields a string_too_long violation of the last error names.
TooLongFields ==
    {LastError.errors[i].loc[1] :
        i \in {j \in DOMAIN LastError.errors :
                  LastError.errors[j].type = "string_too_long"}}

\* C24: the repair engine changes only top-level fields named by a too-long
\* violation: every other field of the repaired dict (too short, missing
\* sibling, no violation) has the value it had, no field is added or
\* removed, and the dict the caller passed is as it was.
C24_RepairChangesOnlyTooLongFields ==
    repair_dicts # None =>
        /\ repair_calls = <<DictOf(repair_dicts.data)>>
        /\ DOMAIN repair_dicts.fixed_data = DOMAIN repair_dicts.data
        /\ \A field \in DOMAIN repair_dicts.data :
              field \notin TooLongFields =>
                  repair_dicts.fixed_data[field] = repair_dicts.data[field]
        /\ repair_out.kind = "return" => repair_out.value = repair_dicts.fixed_data

\* The summary was truncated next to a list that is too short, which stays.
C24_Witness ==
    /\ repair_dicts # None
    /\ TooLongFields = {"final_summary"}
    /\ repair_dicts.fixed_data.final_summary # repair_dicts.data.final_summary
    /\ Len(repair_dicts.data.key_takeaways) < shape.min_items
    /\ repair_dicts.fixed_data.key_takeaways = repair_dicts.data.key_takeaways

\* Only a too-short violation: nothing is changed.
C24_WitnessTooShort ==
    /\ repair_dicts # None
    /\ TooLongFields = {}
    /\ HasKey(repair_dicts.data, "final_summary")
    /\ Len(repair_dicts.data.final_summary) < shape.min_length
    /\ repair_dicts.fixed_data = repair_dicts.data

(***************************************************************************)
(* The content of a search tool's result turn (checked under SpecSearch).  *)
(***************************************************************************)
\* C25: after a successful search-tool call the content of the tool-result
\* turn is the search result with every unreachable URL removed, the
\* remaining entries in their order.
C25_ResultTurnHoldsFilteredResult ==
    (s_pc = "done" /\ s_raw # None) =>
        s_turn.content = Str(ValidateAndFilterSearchResults(s_raw))

(***************************************************************************)
(* Properties of the event stream (checked under SpecStream).              *)
(***************************************************************************)
StageOf(ev) == ev.data.stage
Terminal(ev) == StageOf(ev) \in {"complete", "error"}
LastEvent == e_events[Len(e_events)]
StreamClosedByGenerator == e_pc = "closed" /\ ~e_abandoned
LoggedStages == {e_log[i] : i \in DOMAIN e_log}

\* C26: every event stream begins with a 'started' event; a terminal event
\* ('complete' or 'error') is the last event of its stream, so there is at
\* most one and the two kinds never both occur; a stream the generator ends
\* itself (the consumer did not abandon it) ends with a terminal event.
C26_StartedFirstOneTerminalLast ==
    /\ e_events # <<>> => StageOf(e_events[1]) = "started"
    /\ \A i \in DOMAIN e_events : Terminal(e_events[i]) => i = Len(e_events)
    /\ ~(\E i, j \in DOMAIN e_events :
            StageOf(e_events[i]) = "complete" /\ StageOf(e_events[j]) = "error")
    /\ StreamClosedByGenerator => (e_events # <<>> /\ Terminal(LastEvent))

\* A stream that ran to its end: 'started', then the terminal event.
C26_Witness ==
    /\ StreamClosedByGenerator
    /\ Len(e_events) = 2
    /\ StageOf(e_events[1]) = "started"
    /\ Terminal(e_events[2])

C29_EmissionFailureDoesNotAbortPipeline ==
    e_abandoned =>
        /\ "emission_failure" \in LoggedStages
        /\ e_pipeline = "completed"

(***************************************************************************)
(* Properties of fact_check_claims_tool (checked under SpecFactTool).      *)
(***************************************************************************)
FactToolDone == f_pc = "done"
IsErrorPayload(payload) == "error" \in DOMAIN payload
SpecialistInvoked == f_specialist_calls # <<>>

\* The argument is JSON whose value is the empty list.
IsEmptyList ==
    f_json.wellformed /\ f_json.value.kind = "list" /\ f_json.value.items = <<>>

\* The argument is JSON whose value is an empty object or an empty string.
IsEmptyNonList ==
    /\ f_json.wellformed
    /\ f_json.value.kind \in {"object", "string"}
    /\ f_json.value.size = 0

\* The argument is JSON whose value is a list of statement objects with the
\* fields of a factual statement.
IsStatementList ==
    /\ f_json.wellformed
    /\ f_json.value.kind = "list"
    /\ \A i \in DOMAIN f_json.value.items :
          /\ f_json.value.items[i].kind = "object"
          /\ f_json.value.items[i].fields_ok

\* C30: with an empty list of statements the tool returns the default result
\* (one 'unverified' claim) and the specialist is not invoked; with an
\* argument that is not JSON or not a list of valid statements it returns an
\* error payload and the specialist is not invoked.
C30_EmptyOrInvalidInputSkipsSpecialist ==
    FactToolDone =>
        /\ IsEmptyList => (f_result = DefaultResult /\ ~SpecialistInvoked)
        /\ ~IsStatementList => (IsErrorPayload(f_result) /\ ~SpecialistInvoked)

\* C30 as amended: an argument whose JSON value is empty (the empty list,
\* but also an empty object or an empty string) gets the default result;
\* any other argument that is not a list of valid statements gets an error
\* payload; in neither case is the specialist invoked, and it is invoked
\* once for a non-empty list of valid statements.
C30_EmptyGetsDefaultInvalidGetsError ==
    FactToolDone =>
        /\ (IsEmptyList \/ IsEmptyNonList) =>
              /\ f_result = DefaultResult
              /\ Len(f_result.verified_claims) = 1
              /\ f_result.verified_claims[1].verification_status = "unverified"
              /\ ~SpecialistInvoked
        /\ (~IsStatementList /\ ~IsEmptyNonList) =>
              (IsErrorPayload(f_result) /\ ~SpecialistInvoked)
        /\ (IsStatementList /\ ~IsEmptyList) => Len(f_specialist_calls) = 1

\* The empty list was answered with the default result.
C30_Witness ==
    /\ FactToolDone
    /\ IsEmptyList
    /\ f_result = DefaultResult
    /\ ~SpecialistInvoked

\* A list whose second entry lacks the fields of a statement was rejected.
C30_WitnessInvalid ==
    /\ FactToolDone
    /\ f_json.wellformed /\ f_json.value.kind = "list"
    /\ Len(f_json.value.items) = 2
    /\ f_json.value.items[1].kind = "object" /\ f_json.value.items[1].fields_ok
    /\ f_json.value.items[2].kind = "object" /\ ~f_json.value.items[2].fields_ok
    /\ f_result = ErrorPayload("Invalid factual statement data")
    /\ ~SpecialistInvoked

(***************************************************************************)
(* Properties of the extractor called on its own (checked under            *)
(* SpecExtract).                                                           *)
(***************************************************************************)
\* What two extractions of one text have in common when they agree: the
\* same record, or a failure of the same kind with the same violations.
SameOutcome(a, b) ==
    /\ a.kind = b.kind
    /\ a.kind = "return" => a.value = b.value
    /\ a.kind = "raise" =>
        /\ a.exc.type = b.exc.type
        /\ IsValidationError(a.exc) => a.exc.errors = b.exc.errors

\* C31: when the text parses leniently the record is built from that parse:
\* json.loads is handed the text as it is, once, and the sanitization pass is
\* not applied; the pass is applied only after the lenient parse failed, at
\* most once per extraction and followed by exactly one more parse, of the
\* sanitized text; two extractions of the same valid JSON end alike, with
\* equal records when they return.
C31_SanitizationOnlyAfterParseFailure ==
    /\ \A k \in DOMAIN x_runs :
        LET run == x_runs[k]
        IN  /\ Len(run.sanitized) <= 1
            /\ x_text.wellformed =>
                /\ run.parsed = <<x_text>>
                /\ run.sanitized = <<>>
                /\ run.out = ModelValidate(x_text.data, x_shape, k - 1)
            /\ run.sanitized # <<>> =>
                /\ ~x_text.wellformed
                /\ run.sanitized = <<x_text>>
                /\ run.parsed = <<x_text, Sanitize(x_text)>>
    /\ x_text.wellformed =>
        \A j, k \in DOMAIN x_runs : SameOutcome(x_runs[j].out, x_runs[k].out)

\* A JSON object with unescaped control characters was extracted twice: both
\* extractions return the same record and neither sanitized the text.
C31_Witness ==
    /\ Len(x_runs) = 2
    /\ x_text.wellformed /\ x_text.raw_ctrl
    /\ x_runs[1].out.kind = "return"
    /\ x_runs[1].out.value = x_runs[2].out.value
    /\ x_runs[2].sanitized = <<>>

\* A text that does not parse was sanitized once and parsed once more.
C31_WitnessSanitized ==
    /\ Len(x_runs) = 1
    /\ ~x_text.wellformed /\ x_text.raw_ctrl
    /\ Len(x_runs[1].parsed) = 2
    /\ x_runs[1].out = Raise(ValueErrorExc)

(***************************************************************************)
(* The truncation of an over-long string (checked under SpecTruncate).     *)
(***************************************************************************)
\* Backing up to the space at 0-based index last_space keeps last_space
\* characters: at least 80% of max_length.
RetainsAtLeast80Percent(last_space, max_length) ==
    last_space >= 0 /\ 5 * last_space >= 4 * max_length

\* The truncation as stated: cut at max_length, back up to the last space of
\* the cut exactly when that keeps at least 80% of max_length characters,
\* append the ellipsis if and only if the result is shorter than the value.
StatedTruncation(original_value, max_length) ==
    LET cut == Take(original_value, max_length)
        last_space == RFindSpace(cut)
        kept == IF RetainsAtLeast80Percent(last_space, max_length)
                    THEN Take(cut, last_space) ELSE cut
    IN  IF Len(kept) < Len(original_value) THEN RStrip(kept) \o Ellipsis ELSE kept

\* C32: a too-long string is cut at max_length characters, backed up to the
\* last space inside the cut exactly when that retains at least 80% of
\* max_length characters (otherwise the hard cut is kept), and the ellipsis
\* is appended if and only if the result is shorter than the original value.
C32_BacksUpWhenEightyPercentKept ==
    (u_pc = "done" /\ Len(u_original_value) > u_max_length) =>
        u_truncated = StatedTruncation(u_original_value, u_max_length)

(***************************************************************************)
(* The conversations of the retry loop (checked under Spec).               *)
(***************************************************************************)
IsPrefix(a, b) == Len(a) <= Len(b) /\ SubSeq(b, 1, Len(a)) = a

\* C33: each validation failure with attempts remaining appends exactly two
\* turns, the failed model response and then one human corrective turn for
\* that attempt, so the conversation sent on attempt k (counted from 1) is
\* the initial conversation followed by 2(k-1) turns, and every conversation
\* sent earlier is a prefix of it.
C33_TwoTurnsPerFailedAttempt ==
    /\ Len(sent) = llm_calls
    /\ corrective = attempt
    /\ Len(messages) = Len(<<PromptTurn>>) + 2 * corrective
    /\ \A k \in DOMAIN sent :
        /\ Len(sent[k]) = Len(<<PromptTurn>>) + 2 * (k - 1)
        /\ IsPrefix(<<PromptTurn>>, sent[k])
        /\ k > 1 =>
            /\ sent[k] = sent[k - 1] \o <<Turn("ai", "response", k - 2),
                                          Turn("human", "corrective", k - 2)>>
            /\ sent[k][Len(sent[k]) - 1].role = "ai"
            /\ sent[k][Len(sent[k])].role = "human"
        /\ \A j \in 1..k : IsPrefix(sent[j], sent[k])
        /\ IsPrefix(sent[k], messages)

\* Two attempts failed validation and a third conversation was sent.
C33_Witness ==
    /\ max_retries = 2
    /\ Len(sent) = 3
    /\ Len(sent[1]) = 1 /\ Len(sent[2]) = 3 /\ Len(sent[3]) = 5
    /\ retried_kinds = {"invalid"}

(***************************************************************************)
(* The rounds of the critique loop (checked under SpecGraph).              *)
(***************************************************************************)
\* The record of the latest critique round.
LastRound == History[Len(History)]

\* C34: after each critique round should_continue is true exactly when the
\* round's critique is not sufficient and the round's 0-based index is less
\* than max_critic_iterations - 1, and the iteration counter has been
\* increased by exactly 1 in every round, whatever the verdict.
C34_ContinueIffInsufficientAndBudgetLeft ==
    /\ critic_iterations = g_critiques
    /\ g_critiques >= 1 =>
        /\ LastRound.iteration = critic_iterations - 1
        /\ LastRound.critic_feedback = g_critic_outs[g_critiques]
        /\ should_continue <=>
              (/\ ~g_critic_outs[g_critiques].research_is_sufficient
               /\ critic_iterations - 1 < max_critic_iterations - 1)
        /\ g_pc \in {"fact_checker", "critic"} => should_continue
        /\ g_pc = "end" => ~should_continue

\* The second round found the research sufficient with budget left: the
\* counter went up all the same and the loop stops.
C34_Witness ==
    /\ max_critic_iterations = 3
    /\ critic_iterations = 2
    /\ ~g_critic_outs[1].research_is_sufficient
    /\ g_critic_outs[2].research_is_sufficient
    /\ ~should_continue
    /\ g_pc = "end"

\* An insufficient verdict in the last round the budget allows.
C34_WitnessBudget ==
    /\ max_critic_iterations = 2
    /\ critic_iterations = 2
    /\ ~g_critic_outs[2].research_is_sufficient
    /\ ~should_continue

\* C35: the fact-checker is seeded with the previous round's fact-check
\* result and the previous round's critique feedback in every round after
\* the first, and with neither in the first round.
C35_SeededWithPreviousRound ==
    /\ Len(g_seeds) = g_fact_checks
    /\ \A k \in DOMAIN g_seeds :
        IF k = 1 THEN g_seeds[k] = None
        ELSE g_seeds[k] = [previous_fact_check |-> g_fc_outs[k - 1],
                           critic_feedback |-> g_critic_outs[k - 1]]

\* The third round was seeded with the second round's result, which differs
\* from the first round's.
C35_Witness ==
    /\ Len(g_seeds) = 3
    /\ g_fc_outs[1] # g_fc_outs[2]
    /\ g_seeds[3].previous_fact_check = g_fc_outs[2]
    /\ g_seeds[2].previous_fact_check = g_fc_outs[1]
    /\ g_seeds[1] = None

\* C36: the iteration history is append-only and ordered: after k rounds it
\* holds exactly k records with the iteration indices 0, 1, ..., k-1 in that
\* order, record i pairs the fact-check result and the critique produced in
\* round i, and records of earlier rounds stay as they were.
C36_HistoryAppendOnlyAndOrdered ==
    /\ Len(History) = g_critiques
    /\ Len(g_critic_outs) = g_critiques
    /\ \A k \in DOMAIN History :
        /\ History[k].iteration = k - 1
        /\ History[k] = IterationRecord(k - 1, g_fc_outs[k], g_critic_outs[k])

\* Three rounds with different fact-check results.
C36_Witness ==
    /\ g_pc = "end"
    /\ Len(History) = 3
    /\ History[1].fact_check # History[2].fact_check
    /\ History[3].critic_feedback.research_is_sufficient
    /\ History[1].iteration = 0 /\ History[3].iteration = 2

(***************************************************************************)
(* The final answer of a tool-calling loop and the failover of its         *)
(* iterations (checked under SpecTool).                                    *)
(***************************************************************************)
\* Index of the last model turn of the conversation.
LastAi == CHOOSE k \in AiIndexes : \A j \in AiIndexes : j <= k

\* The loop ran out of iterations while the last model turn still requested
\* tools, and the code after the loop goes on to parse a final answer.
StoppedWithRequestsPending ==
    /\ t_loop \in {"fact_check"} \cup NodeLoops
    /\ t_pc = "after_loop"
    /\ t_iteration = t_max_iterations
    /\ AiIndexes # {}
    /\ t_messages[LastAi].tool_calls # <<>>

\* C37: when a tool-calling loop stops because max_iterations is reached with
\* tool requests still pending, the text taken as the final answer is the
\* content of the last model turn, not of a tool-result turn.
C37_FinalAnswerIsLastModelTurn ==
    StoppedWithRequestsPending =>
        /\ t_final.role = "ai"
        /\ t_final = t_messages[LastAi]

\* The iterations whose model invocation gave a turn.
AnsweredIterations == {k \in DOMAIN t_history : t_history[k][Len(t_history[k])].ok}

\* C40: failover is decided in every iteration anew: each iteration invokes
\* the primary binding first, the fallback only after the primary failed in
\* that same iteration, whatever happened in earlier iterations; and every
\* iteration that does not raise appends exactly one model turn, the answer
\* of the binding invoked last.
C40_FailoverDecidedPerIteration ==
    /\ \A k \in DOMAIN t_history :
        LET invoked == t_history[k]
        IN  /\ Len(invoked) \in 1..2
            /\ invoked[1].by = "primary"
            /\ Len(invoked) = 2 =>
                /\ t_fallback
                /\ ~invoked[1].ok
                /\ invoked[2].by = "fallback"
            /\ (~invoked[1].ok /\ t_fallback) => Len(invoked) = 2
    /\ AiCount = Cardinality(AnsweredIterations)
    /\ \A k \in AnsweredIterations : \E i \in AiIndexes : t_messages[i].it = k - 1
    /\ t_pc # "raised" => AnsweredIterations = DOMAIN t_history

\* The fallback answered in the first iteration; the second iteration went
\* to the primary again, which answered.
C40_Witness ==
    /\ t_loop = "supervisor"
    /\ t_fallback
    /\ Len(t_history) = 2
    /\ t_history[1] = <<[by |-> "primary", ok |-> FALSE], [by |-> "fallback", ok |-> TRUE]>>
    /\ t_history[2] = <<[by |-> "primary", ok |-> TRUE]>>
    /\ AiCount = 2

\* The same in the fact-check loop, the primary failing in both iterations.
C40_WitnessFactCheck ==
    /\ t_loop = "fact_check"
    /\ t_fallback
    /\ Len(t_history) = 2
    /\ Len(t_history[1]) = 2 /\ t_history[1][2].ok
    /\ Len(t_history[2]) = 2 /\ t_history[2][1].by = "primary" /\ t_history[2][2].ok
    /\ AiCount = 2

(***************************************************************************)
(* The supervisor's tool wrappers (checked under SpecWrapper).             *)
(***************************************************************************)
WrapperDone == k_pc = "done"
SpecialistRaised == k_specialist.kind = "raise"

\* C39: a supervisor tool wrapper never raises because of its specialist:
\* whatever exception the specialist raises (validation exhaustion, provider
\* failure, anything else) the wrapper returns a JSON error payload, and
\* supervisor_node records that payload as the output of that specialist.
C39_WrappersConvertExceptionsToPayloads ==
    WrapperDone =>
        /\ k_result.kind = "return"
        /\ SpecialistRaised =>
            /\ "error" \in DOMAIN k_result.value
            /\ k_result.value.error_type = k_specialist.exc.type
        /\ ~SpecialistRaised => "error" \notin DOMAIN k_result.value
        /\ DOMAIN k_outputs = {k_tool}
        /\ k_outputs[k_tool] = ToolResult(k_tool, OutcomeOf(k_result), CallId(0, 1))
        /\ Len(k_turns) = 1

\* A provider failure inside the note extractor came back as an error
\* payload and was stored under extract_notes_tool.
C39_Witness ==
    /\ WrapperDone
    /\ k_tool = "extract_notes_tool"
    /\ k_specialist = Raise([type |-> "TransportError"])
    /\ k_result = Return(WrapperErrorPayload(k_tool, "Unexpected error", "TransportError"))
    /\ k_outputs[k_tool].kind = "error_payload"

\* Validation exhaustion inside the fact-checking specialist.
C39_WitnessValidation ==
    /\ WrapperDone
    /\ k_tool = "fact_check_claims_tool"
    /\ k_specialist = Raise([type |-> "ValidationError"])
    /\ k_result.value.error = "ValidationError"
    /\ k_outputs[k_tool].kind = "error_payload"

(***************************************************************************)
(* Sequences of merges (checked under SpecChain).                          *)
(***************************************************************************)
\* C38: across any sequence of merges of the model_responses channel, a
\* model-output field that has a value never becomes empty again, and the
\* fact-check history never gets shorter: the history before a merge is a
\* prefix of the history after it.
C38_MergeNeverResetsNorShortens ==
    [][c_acc # None =>
        /\ c_acc' # None
        /\ \A f \in ScalarFields : c_acc[f] # None => c_acc'[f] # None
        /\ IsPrefix(c_acc.fact_check_iterations, c_acc'.fact_check_iterations)]_vars

\* After at least two merges the last update left model_a unset and carried
\* no history, and the channel still has model_a and its history.
C38_Witness ==
    /\ c_n >= 2
    /\ c_right.model_a = None
    /\ c_right.fact_check_iterations = <<>>
    /\ c_acc.model_a # None
    /\ Len(c_acc.fact_check_iterations) >= 1

====
